---- MODULE Spec2Model ----
(***************************************************************************)
(* Capture-and-delivery pipeline of react-error-sentinel: the persisted    *)
(* ErrorQueue over SafeStorage, the retrying Transport, and the            *)
(* ErrorTracker that wires them together.                                  *)
(*                                                                         *)
(* The specifications share the variables:                                 *)
(*   SpecQueue      the public operations of one ErrorQueue over the store *)
(*   SpecTransport  one Transport.send call, attempt by attempt            *)
(*   Spec           the ErrorTracker: init, captureError, flush, shutdown, *)
(*                  the two timers and the flushes in flight               *)
(*   SpecBurst      the tracker in send-on-error-only mode, driven by      *)
(*                  captureError calls and the clock alone                 *)
(*   SpecCrumbs     the public operations of one BreadcrumbManager         *)
(*   SpecSanitize   DataSanitizer.sanitize applied to a value, and again   *)
(*                  to its result                                          *)
(*   SpecCapture    the tracker's capture-side API with plugins, user and  *)
(*                  context data, sampling and breadcrumbs                 *)
(*   SpecLife       the tracker through init, its public methods,          *)
(*                  shutdown and init again                                *)
(*   SpecDedup      one DeduplicationManager                               *)
(*   SpecSimple     a tracker initialized from a SimpleConfig              *)
(*   SpecMessage    a tracker capturing messages of every level            *)
(*   SpecSession    one SessionManager over page loads                     *)
(*   SpecFingerprint  generateFingerprint applied to two errors            *)
(*   SpecBackoff    the delays Transport.send computes between attempts    *)
(*   SpecPeriodic   a tracker in periodic mode whose collector answers     *)
(*                  every request with a 2xx status; FairPeriodic adds     *)
(*                  that the interval keeps firing, requests are answered  *)
(*                  and sleeps end                                         *)
(*                                                                         *)
(* Time has two scales.  `now` is Date.now() in ms and moves in the large  *)
(* jumps that matter to the 7-day age filter; the debounce timer counts    *)
(* ticks since it was armed, saturating at the debounce delay.             *)
(***************************************************************************)
EXTENDS Integers, Sequences, FiniteSets, TLC

VARIABLES
    ls,                 \* localStorage[QUEUE_STORAGE_KEY]
    mem,                \* SafeStorage.memoryStore.get(QUEUE_STORAGE_KEY)
    isAvailable,        \* SafeStorage.isAvailable
    queue,              \* ErrorQueue.queue
    maxSize,            \* ErrorQueue.maxSize
    now,                \* Date.now()
    nextId,             \* the next value generateUUID() hands out
    tx,                 \* the Transport.send call of SpecTransport
    txLog,              \* history: what each HTTP request of tx came back with
    isInitialized,      \* ErrorTracker.isInitialized
    config,             \* ErrorTracker.config
    flushIntervalId,    \* ErrorTracker.flushIntervalId (TRUE: interval armed)
    leakedInterval,     \* an interval runs that no field refers to any more
    sendDebounceTimer,  \* ErrorTracker.sendDebounceTimer: "unset", "pending", "fired"
    timeouts,           \* ticks since armed of each pending debounce timeout
    flights,            \* sendQueuedEvents invocations that have not finished
    added,              \* history: events passed to add since construction
    onlyAdds,           \* history: empty store at construction, only add since
    last,               \* history: the operation that produced this state
    evicted,            \* history: ids shifted out by the size bound
    lifecycle,          \* history: the last init/shutdown call made
    sinceLast,          \* history: ticks since the last accepted captureError
    burst,              \* history: ids accepted in the current burst
    burstSends,         \* history: Transport.send calls since the burst began
    breadcrumbs,        \* BreadcrumbManager.breadcrumbs
    maxBreadcrumbs,     \* BreadcrumbManager.maxBreadcrumbs
    retentionMs,        \* BreadcrumbManager.retentionMs
    crumbLog,           \* history: breadcrumbs passed to add since construction
    plugins,            \* ErrorTracker.plugins: what the registered getState does
    userInfo,           \* ErrorTracker.userInfo
    contextData,        \* ErrorTracker.contextData
    heap,               \* the objects and arrays a sanitize argument refers to
    root,               \* the argument of sanitize
    sanitizer,          \* DataSanitizer fields and the maxDepth argument
    sanitized,          \* history: sanitize(root)
    resanitized,        \* history: sanitize(sanitize(root))
    seen,               \* DeduplicationManager.seen: fingerprint -> entry
    windowMs,           \* DeduplicationManager.windowMs
    maxCount,           \* DeduplicationManager.maxCount
    windows,            \* history: per fingerprint, its window's first call and calls
    dedupLast,          \* history: the last shouldCapture call and its result
    unpruned,           \* history: seen of a manager given the same calls, never pruned
    session,            \* SessionManager.session
    sessionStored,      \* what the store holds under SESSION_KEY
    lastActivityUpdate, \* SessionManager.lastActivityUpdate
    saveDebounceId,     \* when the pending debounced save is due, 0 if none
    nextSession,        \* the next session id generateUUID() hands out
    sessionHist,        \* history: the last activity and the last id returned
    errors,             \* the two errors handed to generateFingerprint
    fingerprints,       \* what generateFingerprint returned for each of them
    backoff             \* the retry delays of one Transport.send call

storeVars == <<ls, mem, isAvailable>>
queueVars == <<queue, maxSize>>
txVars == <<tx, txLog>>
trackerVars == <<isInitialized, config, flushIntervalId, leakedInterval,
                 sendDebounceTimer, timeouts, flights>>
queueHist == <<added, onlyAdds>>
burstVars == <<sinceLast, burst, burstSends>>
trackerHist == <<last, evicted, lifecycle, sinceLast, burst, burstSends>>
crumbVars == <<breadcrumbs, maxBreadcrumbs, retentionMs, crumbLog>>
appVars == <<plugins, userInfo, contextData>>
sanVars == <<heap, root, sanitizer, sanitized, resanitized>>
dedupVars == <<seen, windowMs, maxCount, windows, dedupLast, unpruned>>
sessionVars == <<session, sessionStored, lastActivityUpdate, saveDebounceId,
                 nextSession, sessionHist>>
fingerprintVars == <<errors, fingerprints>>
backoffVars == <<backoff>>
utilVars == <<dedupVars, sessionVars, fingerprintVars, backoffVars>>
vars == <<ls, mem, isAvailable, queue, maxSize, now, nextId, tx, txLog,
          isInitialized, config, flushIntervalId, leakedInterval,
          sendDebounceTimer, timeouts, flights, added, onlyAdds, last, evicted,
          lifecycle, sinceLast, burst, burstSends, breadcrumbs, maxBreadcrumbs,
          retentionMs, crumbLog, plugins, userInfo, contextData, heap, root,
          sanitizer, sanitized, resanitized, seen, windowMs, maxCount, windows,
          dedupLast, unpruned, session, sessionStored, lastActivityUpdate, saveDebounceId,
          nextSession, sessionHist, errors, fingerprints, backoff>>

(***************************************************************************)
(* Bounds                                                                  *)
(***************************************************************************)
MaxEvents == 3          \* events added to the queue of SpecQueue
MaxCaptures == 2        \* events the tracker captures in one behaviour
MaxQueueSize == 2       \* largest configured maximum queue size
MaxStored == 2          \* events an earlier page load left in the store
MaxRetry == 2           \* largest configured attempt budget
MaxFlights == 2         \* flushes in flight at once
DebounceTicks == 2      \* config.debounceMs, in ticks
MaxCrumbSize == 2       \* largest configured maximum breadcrumb count
MaxCrumbs == 3          \* breadcrumbs added in one behaviour
MaxNodes == 2           \* objects and arrays a sanitize argument is made of
MaxDepthArg == 3        \* largest maxDepth passed to sanitize
MaxTrackerCrumbs == 1   \* breadcrumbs added to the tracker in one behaviour
MaxDedupWindow == 2     \* largest deduplication window, in ms
MaxDedupCount == 2      \* largest maxCount of a DeduplicationManager
MaxDedupCalls == 4      \* shouldCapture calls in one behaviour
MaxDedupTime == 5       \* the clock of SpecDedup runs from 1 to this
MaxSessions == 3        \* session ids minted in one behaviour

Null == [null |-> TRUE]

Min(a, b) == IF a < b THEN a ELSE b

Range(s) == {s[i] : i \in 1..Len(s)}

Ids(s) == {s[i].event_id : i \in 1..Len(s)}

\* the last n elements of s
LastN(s, n) == SubSeq(s, Len(s) - n + 1, Len(s))

(***************************************************************************)
(* SafeStorage (utils/storage.ts), for the one key the queue uses.         *)
(* A stored string is modelled by what JSON.parse makes of it:             *)
(*   [kind |-> "array", events |-> q]   JSON.stringify of an event array   *)
(*   [kind |-> "object"]                valid JSON that is not an array    *)
(*   [kind |-> "corrupt"]               not parseable                      *)
(*   [kind |-> "empty"]                 the empty string                   *)
(***************************************************************************)
MAX_AGE_MS == 7 * 24 * 60 * 60 * 1000

Stringify(q) == [kind |-> "array", events |-> q]

\* storage.getItem: localStorage when available, else the memory store
GetItem(st) == IF st.isAvailable THEN st.ls ELSE st.mem

\* storage.setItem; wok: localStorage.setItem did not throw (quota)
SetItem(st, v, wok) ==
    IF st.isAvailable /\ wok
    THEN [st EXCEPT !.ls = v]
    ELSE [st EXCEPT !.mem = v]

\* storage.removeItem
RemoveItem(st) ==
    IF st.isAvailable
    THEN [st EXCEPT !.ls = Null]
    ELSE [st EXCEPT !.mem = Null]

Store == [ls |-> ls, mem |-> mem, isAvailable |-> isAvailable]

(***************************************************************************)
(* ErrorQueue (core/queue.ts).  Each operation is a function from the      *)
(* queue and the store to the new queue and the new store.                 *)
(***************************************************************************)
\* persist(): SafeStorage.setItem never throws, so the catch branch with
\* handleQuotaExceeded is not entered from here
Persist(q, st, wok) == [queue |-> q, store |-> SetItem(st, Stringify(q), wok)]

\* mutant of QueuePush: a full queue refuses the new event instead of
\* evicting the oldest
QueuePushDropsNewest(q, e, m) ==
    IF Len(q) >= m THEN q ELSE Append(q, e)

\* add(event): push, one shift when over maxSize, persist
QueuePush(q, e, m) ==
    LET pushed == Append(q, e)
    IN  IF Len(pushed) > m THEN Tail(pushed) ELSE pushed

QueueAdd(q, e, m, st, wok) == Persist(QueuePush(q, e, m), st, wok)

\* mutant of QueueFilter: the filter keeps the listed ids
QueueFilterKeepsListed(q, ids) == SelectSeq(q, LAMBDA e : e.event_id \in ids)

\* remove(eventIds)
QueueFilter(q, ids) == SelectSeq(q, LAMBDA e : e.event_id \notin ids)

QueueRemove(q, ids, st, wok) == Persist(QueueFilter(q, ids), st, wok)

\* clear()
QueueClear(st, wok) == Persist(<<>>, st, wok)

\* restore(), called by the constructor at time t
RestoreFilter(parsed, t) == SelectSeq(parsed, LAMBDA e : t - e.timestamp < MAX_AGE_MS)

Restore(st, t, wok) ==
    LET data == GetItem(st)
    IN  IF data = Null \/ data.kind = "empty" THEN [queue |-> <<>>, store |-> st]
        ELSE IF data.kind = "corrupt" THEN [queue |-> <<>>, store |-> RemoveItem(st)]
        ELSE IF data.kind # "array" THEN [queue |-> <<>>, store |-> RemoveItem(st)]
        ELSE LET kept == RestoreFilter(data.events, t)
             IN  IF Len(kept) # Len(data.events)
                 THEN Persist(kept, st, wok)
                 ELSE [queue |-> kept, store |-> st]


(***************************************************************************)
(* Transport (core/transport.ts).  One send call is a record                *)
(*   pc           "fetch": awaiting the HTTP response of this attempt       *)
(*                "sleep": awaiting the backoff sleep before the next one   *)
(*                "done":  returned, with `result`                          *)
(*   attempt      the loop variable                                         *)
(*   events       the batch                                                 *)
(* A response is [kind |-> "network"] (fetch threw) or                      *)
(* [kind |-> "http", status |-> s, body |-> b]; the body of a 2xx response  *)
(* is [kind |-> "ids", ids |-> S] (JSON with a truthy event_ids),           *)
(* [kind |-> "noids"] (JSON without one), [kind |-> "bad"] (response.json   *)
(* or the read of data.event_ids throws: no JSON, empty, null) or           *)
(* [kind |-> "nonlist"] (JSON whose event_ids is truthy but no list: a      *)
(* number, an object).  The result of a send carries the event_ids as a    *)
(* set, and `iterable` says whether they were a list at all.                *)
(***************************************************************************)
\* `lastStatus = null`: no response was observed
NoStatus == 0

\* response.ok
ResponseOk(status) == status >= 200 /\ status <= 299

\* mutant of IsRetryableError: every status from 400 up is retried
IsRetryableErrorAny4xx(status) == status >= 400

\* isRetryableError(status)
IsRetryableError(status) ==
    IF status >= 500 /\ status < 600 THEN TRUE
    ELSE IF status = 429 THEN TRUE
    ELSE IF status = 408 THEN TRUE
    ELSE FALSE

SendDone(s, res) == [s EXCEPT !.pc = "done", !.result = res]

\* the return after the loop
SendExhausted(s) ==
    SendDone(s, [success |-> FALSE,
                 error |-> [status |-> s.lastStatus, text |-> s.lastError]])

\* mutant of SendAfterAttempt: the last attempt sleeps and retries too
SendAfterAttemptOffByOne(s) ==
    IF s.attempt < s.maxAttempts
    THEN [s EXCEPT !.pc = "sleep"]
    ELSE SendExhausted([s EXCEPT !.attempt = s.attempt + 1])

\* the end of a failed attempt: sleep unless it was the last one, attempt++
SendAfterAttempt(s) ==
    IF s.attempt < s.maxAttempts - 1
    THEN [s EXCEPT !.pc = "sleep"]
    ELSE SendExhausted([s EXCEPT !.attempt = s.attempt + 1])

\* the catch block
SendCaught(s) ==
    SendAfterAttempt([s EXCEPT !.lastStatus = NoStatus, !.lastError = "exception"])

\* send(events) up to its first await
SendStart(events, n, hasEndpoint) ==
    LET s == [pc |-> "fetch", attempt |-> 0, events |-> events, maxAttempts |-> n,
              lastStatus |-> NoStatus, lastError |-> "", result |-> Null]
    IN  IF ~hasEndpoint
        THEN SendDone(s, [success |-> FALSE,
                          error |-> [status |-> NoStatus, text |-> "No endpoint configured"]])
        ELSE IF events = <<>>
        THEN SendDone(s, [success |-> TRUE, eventIds |-> {}, iterable |-> TRUE])
        ELSE IF ~(0 < n)
        THEN SendExhausted(s)
        ELSE s

\* mutant of SendOnResponse: no fallback to the ids of the batch when the
\* body has no event_ids
SendOnResponseNoFallback(s, r) ==
    IF r.kind = "network" THEN SendCaught(s)
    ELSE IF ResponseOk(r.status)
    THEN IF r.body.kind = "bad" THEN SendCaught(s)
         ELSE SendDone(s, [success |-> TRUE,
                           eventIds |-> IF r.body.kind = "ids" THEN r.body.ids ELSE {},
                           iterable |-> r.body.kind # "nonlist"])
    ELSE LET s1 == [s EXCEPT !.lastStatus = r.status, !.lastError = "text"]
         IN  IF ~IsRetryableError(r.status)
             THEN SendDone(s1, [success |-> FALSE,
                                error |-> [status |-> r.status, text |-> "text"]])
             ELSE SendAfterAttempt(s1)

\* the loop body from the point where fetch settles with r
SendOnResponse(s, r) ==
    IF r.kind = "network" THEN SendCaught(s)
    ELSE IF ResponseOk(r.status)
    THEN IF r.body.kind = "bad" THEN SendCaught(s)
         ELSE SendDone(s, [success |-> TRUE,
                           eventIds |-> IF r.body.kind = "ids" THEN r.body.ids
                                        ELSE IF r.body.kind = "nonlist" THEN {}
                                        ELSE Ids(s.events),
                           iterable |-> r.body.kind # "nonlist"])
    ELSE LET s1 == [s EXCEPT !.lastStatus = r.status, !.lastError = "text"]
         IN  IF ~IsRetryableError(r.status)
             THEN SendDone(s1, [success |-> FALSE,
                                error |-> [status |-> r.status, text |-> "text"]])
             ELSE SendAfterAttempt(s1)

\* the sleep is over: attempt++ and the next fetch
SendWake(s) == [s EXCEPT !.pc = "fetch", !.attempt = s.attempt + 1]

(***************************************************************************)
(* DataSanitizer (core/sanitizer.ts) and safeClone (utils/helpers.ts).     *)
(*                                                                         *)
(* A JavaScript value is a record tagged by t:                             *)
(*   "prim"     a string or number, v its content                          *)
(*   "null"     null or undefined                                          *)
(*   "date"     a Date                                                     *)
(*   "error"    an Error instance                                          *)
(*   "hostile"  an object whose property enumeration throws                *)
(*   "obj"      a plain object, fields: key -> value                       *)
(*   "arr"      an array, items: a sequence of values                      *)
(*   "ref"      a reference to the object or array heap[id]                *)
(* Arguments reach their objects through references, so an object can      *)
(* refer to itself; results are fresh objects, written inline.             *)
(*                                                                         *)
(* A pattern is named by its source text, and Matches lists the (pattern,  *)
(* key) pairs for which pattern.test(key) is true among the keys used.     *)
(***************************************************************************)
DEFAULT_REDACT_PATTERNS ==
    {"password", "token", "access[_-]?token", "refresh[_-]?token", "api[_-]?key",
     "secret", "auth", "bearer", "authorization"}

Matches == {<<"password", "password">>, <<"note", "note">>}

REDACTED == "[REDACTED]"

MAX_DEPTH_REACHED == "[Max Depth Reached]"

CIRCULAR_REFERENCE == "[Circular Reference]"

Prim(v) == [t |-> "prim", v |-> v]

\* the object an Error instance is reduced to
ErrorObject ==
    [t |-> "obj",
     fields |-> [k \in {"name", "message", "stack"} |-> Prim(k)]]

Resolve(h, value) == IF value.t = "ref" THEN h[value.id] ELSE value

\* shouldRedact(key) of the sanitizer sz
ShouldRedactDefaultsOnly(sz, key) ==
    \E pattern \in DEFAULT_REDACT_PATTERNS : <<pattern, key>> \in Matches

ShouldRedact(sz, key) ==
    LET patterns == IF sz.autoRedact
                    THEN DEFAULT_REDACT_PATTERNS \cup sz.customPatterns
                    ELSE sz.customPatterns
    IN  \E pattern \in patterns : <<pattern, key>> \in Matches

RECURSIVE SanitizeRecursive(_, _, _, _, _)
\* sanitizeRecursive(value, maxDepth, currentDepth)
SanitizeRecursive(sz, h, value, maxDepth, currentDepth) ==
    IF currentDepth >= maxDepth THEN Prim(MAX_DEPTH_REACHED)
    ELSE LET x == Resolve(h, value)
         IN  IF x.t = "null" THEN x
             ELSE IF x.t = "prim" THEN x
             ELSE IF x.t = "error" THEN ErrorObject
             ELSE IF x.t = "date" THEN Prim("ISO")
             ELSE IF x.t = "arr"
             THEN [t |-> "arr",
                   items |-> [i \in 1..Len(x.items) |->
                                SanitizeRecursive(sz, h, x.items[i], maxDepth, currentDepth + 1)]]
             ELSE IF x.t = "hostile" THEN Prim(CIRCULAR_REFERENCE)
             ELSE [t |-> "obj",
                   fields |-> [key \in DOMAIN x.fields |->
                                IF ShouldRedact(sz, key)
                                THEN Prim(sz.redactedValue)
                                ELSE SanitizeRecursive(sz, h, x.fields[key], maxDepth,
                                                       currentDepth + 1)]]

RECURSIVE SafeClone(_, _, _, _)
\* safeClone(obj, maxDepth, currentDepth)
SafeClone(h, obj, maxDepth, currentDepth) ==
    IF currentDepth >= maxDepth THEN Prim(MAX_DEPTH_REACHED)
    ELSE LET x == Resolve(h, obj)
         IN  IF x.t = "null" THEN x
             ELSE IF x.t = "prim" THEN x
             ELSE IF x.t = "error" THEN ErrorObject
             ELSE IF x.t = "date" THEN Prim("ISO")
             ELSE IF x.t = "arr"
             THEN [t |-> "arr",
                   items |-> [i \in 1..Len(x.items) |->
                                SafeClone(h, x.items[i], maxDepth, currentDepth + 1)]]
             ELSE IF x.t = "hostile" THEN Prim(CIRCULAR_REFERENCE)
             ELSE [t |-> "obj",
                   fields |-> [key \in DOMAIN x.fields |->
                                SafeClone(h, x.fields[key], maxDepth, currentDepth + 1)]]

\* sanitize(data, maxDepth)
Sanitize(sz, h, data, maxDepth) ==
    IF ~sz.autoRedact /\ sz.customPatterns = {}
    THEN SafeClone(h, data, maxDepth, 0)
    ELSE SanitizeRecursive(sz, h, data, maxDepth, 0)

(***************************************************************************)
(* BreadcrumbManager (core/breadcrumbs.ts).  A breadcrumb is               *)
(* [id, timestamp]; the timestamp is the caller's.                         *)
(***************************************************************************)
\* defaultConfig.breadcrumbRetentionMs
RETENTION_MS == 5 * 60 * 1000

\* mutant of PruneOldBreadcrumbs: an age equal to the retention is kept
PruneOldBreadcrumbsInclusive(bs, t, ret) ==
    SelectSeq(bs, LAMBDA b : t - b.timestamp <= ret)

\* pruneOldBreadcrumbs() at time t
PruneOldBreadcrumbs(bs, t, ret) == SelectSeq(bs, LAMBDA b : t - b.timestamp < ret)

\* mutant of BreadcrumbAdd: over the maximum the newest entry is dropped
BreadcrumbAddDropsNewest(bs, b, t, m, ret) ==
    LET pruned == PruneOldBreadcrumbs(Append(bs, b), t, ret)
    IN  IF Len(pruned) > m THEN SubSeq(pruned, 1, Len(pruned) - 1) ELSE pruned

\* add(breadcrumb) at time t: push, prune by age, one shift when over the maximum
BreadcrumbAdd(bs, b, t, m, ret) ==
    LET pruned == PruneOldBreadcrumbs(Append(bs, b), t, ret)
    IN  IF Len(pruned) > m THEN Tail(pruned) ELSE pruned

(***************************************************************************)
(* Events and the clock                                                    *)
(***************************************************************************)
\* generateUUID() is modelled by a counter: every id is fresh
NewEvent == [event_id |-> nextId, timestamp |-> now]

\* Date.now() at the instants the age filter tells apart
Times == {1, MAX_AGE_MS, MAX_AGE_MS + 1}

\* what an earlier page load may have left under the key: events 101, 102, ...
\* in insertion order, with timestamps that never decrease
StoredArrays ==
    {q \in UNION {[1..n -> [event_id : 101..(100 + MaxStored), timestamp : {0, 1}]] :
                  n \in 0..MaxStored} :
        \A i \in 1..Len(q) :
            /\ q[i].event_id = 100 + i
            /\ i > 1 => q[i - 1].timestamp <= q[i].timestamp}

StoredValues ==
    {Null, [kind |-> "corrupt"], [kind |-> "object"], [kind |-> "empty"]} \cup {Stringify(q) : q \in StoredArrays}

MaxSizes == 1..MaxQueueSize

\* the assignment of an ErrorQueue operation's result
SetQueue(r) ==
    /\ queue' = r.queue
    /\ ls' = r.store.ls
    /\ mem' = r.store.mem
    /\ UNCHANGED isAvailable

(***************************************************************************)
(* Idle values of the parts a specification does not use                   *)
(***************************************************************************)
NoConfig == [none |-> TRUE]

NoLast == [op |-> "none"]

TxIdle == [pc |-> "idle"]

TrackerIdle ==
    /\ isInitialized = FALSE
    /\ config = NoConfig
    /\ flushIntervalId = FALSE
    /\ leakedInterval = FALSE
    /\ sendDebounceTimer = "unset"
    /\ timeouts = <<>>
    /\ flights = <<>>
    /\ last = NoLast
    /\ evicted = {}
    /\ lifecycle = "none"
    /\ sinceLast = 0
    /\ burst = <<>>
    /\ burstSends = <<>>

CrumbsIdle ==
    /\ breadcrumbs = <<>>
    /\ maxBreadcrumbs = 0
    /\ retentionMs = 0
    /\ crumbLog = <<>>

AppIdle ==
    /\ plugins = "none"
    /\ userInfo = Null
    /\ contextData = [t |-> "obj", fields |-> <<>>]

SanitizerIdle ==
    /\ heap = <<>>
    /\ root = Null
    /\ sanitizer = Null
    /\ sanitized = Null
    /\ resanitized = Null

DedupIdle ==
    /\ seen = <<>>
    /\ windowMs = 0
    /\ maxCount = 0
    /\ windows = <<>>
    /\ dedupLast = Null
    /\ unpruned = <<>>

SessionIdle ==
    /\ session = Null
    /\ sessionStored = Null
    /\ lastActivityUpdate = 0
    /\ saveDebounceId = 0
    /\ nextSession = 1
    /\ sessionHist = Null

FingerprintIdle ==
    /\ errors = Null
    /\ fingerprints = Null

BackoffIdle == backoff = Null

UtilIdle ==
    /\ DedupIdle
    /\ SessionIdle
    /\ FingerprintIdle
    /\ BackoffIdle

(***************************************************************************)
(* SpecQueue: one ErrorQueue object over the store                         *)
(***************************************************************************)
\* new ErrorQueue(m) at page load: localStorage holds what earlier page loads
\* left, the memory store is new and empty
InitQueue ==
    /\ isAvailable \in BOOLEAN
    /\ now = 1
    /\ nextId = 1
    /\ maxSize \in MaxSizes
    /\ \E v \in (IF isAvailable THEN StoredValues ELSE {Null}), wok \in BOOLEAN :
         LET st == [ls |-> v, mem |-> Null, isAvailable |-> isAvailable]
             r == Restore(st, now, wok)
         IN  /\ queue = r.queue
             /\ ls = r.store.ls
             /\ mem = r.store.mem
             /\ onlyAdds = (v = Null)
    /\ added = <<>>
    /\ tx = TxIdle
    /\ txLog = <<>>
    /\ TrackerIdle
    /\ CrumbsIdle
    /\ AppIdle
    /\ SanitizerIdle
    /\ UtilIdle

\* queue.add(event)
QAdd(wok) ==
    /\ nextId <= MaxEvents
    /\ SetQueue(QueueAdd(queue, NewEvent, maxSize, Store, wok))
    /\ nextId' = nextId + 1
    /\ added' = Append(added, NewEvent)
    /\ UNCHANGED <<maxSize, now, onlyAdds>>

\* queue.remove(eventIds)
QRemove(ids, wok) ==
    /\ SetQueue(QueueRemove(queue, ids, Store, wok))
    /\ onlyAdds' = FALSE
    /\ UNCHANGED <<maxSize, now, nextId, added>>

\* queue.clear()
QClear(wok) ==
    /\ SetQueue(QueueClear(Store, wok))
    /\ onlyAdds' = FALSE
    /\ UNCHANGED <<maxSize, now, nextId, added>>

\* queue.flush(): getAll() then clear()
QFlush(wok) ==
    /\ SetQueue(QueueClear(Store, wok))
    /\ onlyAdds' = FALSE
    /\ UNCHANGED <<maxSize, now, nextId, added>>

\* new ErrorQueue(m) over the store as it now is (reload, or tracker re-init)
QConstruct(m, wok) ==
    /\ SetQueue(Restore(Store, now, wok))
    /\ maxSize' = m
    /\ added' = <<>>
    /\ onlyAdds' = (ls = Null /\ mem = Null)
    /\ UNCHANGED <<now, nextId>>

\* time passes
Advance ==
    /\ \E t \in Times : t > now /\ now' = t
    /\ UNCHANGED <<storeVars, queueVars, nextId, queueHist>>

QueueOnly ==
    UNCHANGED <<txVars, trackerVars, trackerHist, crumbVars, appVars, sanVars, utilVars>>

NextQueue ==
    \/ \E wok \in BOOLEAN : QAdd(wok) /\ QueueOnly
    \/ \E ids \in SUBSET (1..MaxEvents), wok \in BOOLEAN : QRemove(ids, wok) /\ QueueOnly
    \/ \E wok \in BOOLEAN : QClear(wok) /\ QueueOnly
    \/ \E wok \in BOOLEAN : QFlush(wok) /\ QueueOnly
    \/ \E m \in MaxSizes, wok \in BOOLEAN : QConstruct(m, wok) /\ QueueOnly
    \/ Advance /\ QueueOnly

SpecQueue == InitQueue /\ [][NextQueue]_vars

(***************************************************************************)
(* C1: a queue constructed over an empty store and then only added to      *)
(* holds exactly the last min(n, M) of the n added events, in insertion    *)
(* order.                                                                  *)
(***************************************************************************)
C1_LastMRetained ==
    onlyAdds => queue = LastN(added, Min(Len(added), maxSize))

\* more events were added than the queue holds, so the oldest was evicted
C1_Witness ==
    /\ onlyAdds
    /\ Len(added) > maxSize
    /\ queue = LastN(added, maxSize)

(***************************************************************************)
(* C2: size() never exceeds the configured maximum, also right after a     *)
(* queue is restored from what a queue with a larger maximum persisted.    *)
(***************************************************************************)
C2_QueueBounded == Len(queue) <= maxSize


(***************************************************************************)
(* SpecCrumbs: one BreadcrumbManager.  The clock stands at the instants    *)
(* the retention filter tells apart for the timestamps callers pass.       *)
(***************************************************************************)
CrumbTimes == {1, 2, RETENTION_MS + 1, RETENTION_MS + 2}

\* new BreadcrumbManager(m, ret)
InitCrumbs ==
    /\ ls = Null
    /\ mem = Null
    /\ isAvailable = TRUE
    /\ queue = <<>>
    /\ maxSize = 1
    /\ now = 1
    /\ nextId = 1
    /\ added = <<>>
    /\ onlyAdds = FALSE
    /\ tx = TxIdle
    /\ txLog = <<>>
    /\ TrackerIdle
    /\ AppIdle
    /\ SanitizerIdle
    /\ UtilIdle
    /\ breadcrumbs = <<>>
    /\ maxBreadcrumbs \in 1..MaxCrumbSize
    /\ retentionMs = RETENTION_MS
    /\ crumbLog = <<>>

\* add(breadcrumb), the breadcrumb carrying timestamp ts
BcAdd(ts) ==
    /\ nextId <= MaxCrumbs
    /\ LET b == [id |-> nextId, timestamp |-> ts]
       IN  /\ breadcrumbs' = BreadcrumbAdd(breadcrumbs, b, now, maxBreadcrumbs, retentionMs)
           /\ crumbLog' = Append(crumbLog, b)
    /\ nextId' = nextId + 1
    /\ UNCHANGED <<now, maxBreadcrumbs, retentionMs>>

\* the setInterval callback of the constructor: pruneOldBreadcrumbs()
BcSweep ==
    /\ breadcrumbs' = PruneOldBreadcrumbs(breadcrumbs, now, retentionMs)
    /\ UNCHANGED <<now, nextId, maxBreadcrumbs, retentionMs, crumbLog>>

\* clear()
BcClear ==
    /\ breadcrumbs' = <<>>
    /\ UNCHANGED <<now, nextId, maxBreadcrumbs, retentionMs, crumbLog>>

\* time passes
BcAdvance ==
    /\ \E t \in CrumbTimes : t > now /\ now' = t
    /\ UNCHANGED <<nextId, crumbVars>>

CrumbsOnly ==
    UNCHANGED <<storeVars, queueVars, queueHist, txVars, trackerVars, trackerHist,
                appVars, sanVars, utilVars>>

NextCrumbs ==
    \/ \E ts \in CrumbTimes : BcAdd(ts) /\ CrumbsOnly
    \/ BcSweep /\ CrumbsOnly
    \/ BcClear /\ CrumbsOnly
    \/ BcAdvance /\ CrumbsOnly

SpecCrumbs == InitCrumbs /\ [][NextCrumbs]_vars

\* the breadcrumb is past its retention at time t
Expired(b, t) == t - b.timestamp >= retentionMs

CrumbIds(bs) == [i \in 1..Len(bs) |-> bs[i].id]

(***************************************************************************)
(* C20: the buffer never holds more than the maximum; it lists retained    *)
(* breadcrumbs in insertion order; an add keeps the breadcrumb it was      *)
(* given unless that one is past its retention; and an entry that leaves   *)
(* the buffer within its retention was inserted before every entry that    *)
(* stays.                                                                  *)
(***************************************************************************)
C20_CrumbsBoundedInOrder ==
    [][/\ Len(breadcrumbs') <= maxBreadcrumbs'
       /\ \A i, j \in 1..Len(breadcrumbs') :
            i < j => breadcrumbs'[i].id < breadcrumbs'[j].id
       /\ Range(breadcrumbs') \subseteq Range(crumbLog')
       /\ crumbLog' # crumbLog =>
            LET b == crumbLog'[Len(crumbLog')]
            IN  ~Expired(b, now) =>
                    /\ breadcrumbs' # <<>>
                    /\ breadcrumbs'[Len(breadcrumbs')] = b
       /\ \A b \in Range(breadcrumbs) \ Range(breadcrumbs') :
            \/ Expired(b, now)
            \/ \A c \in Range(breadcrumbs') : b.id < c.id]_vars

\* the buffer is full and the count bound has evicted the first breadcrumb,
\* which is still within its retention
C20_Witness ==
    /\ Len(breadcrumbs) = maxBreadcrumbs
    /\ Len(crumbLog) > maxBreadcrumbs
    /\ ~Expired(crumbLog[1], now)
    /\ crumbLog[1] \notin Range(breadcrumbs)
    /\ \A i \in 1..Len(breadcrumbs) : ~Expired(breadcrumbs[i], now)

(***************************************************************************)
(* C21: right after an add and right after a periodic sweep the buffer     *)
(* holds no breadcrumb whose age is the retention or more, and an add of a *)
(* breadcrumb whose timestamp is already that old does not keep it.        *)
(***************************************************************************)
C21_NoExpiredAfterAddOrSweep ==
    [][/\ (BcSweep \/ \E ts \in CrumbTimes : BcAdd(ts)) =>
            \A b \in Range(breadcrumbs') : ~Expired(b, now')
       /\ crumbLog' # crumbLog =>
            LET b == crumbLog'[Len(crumbLog')]
            IN  Expired(b, now) => b \notin Range(breadcrumbs')]_vars

\* the breadcrumb added last is past its retention and not in the buffer,
\* while one added before it is within its retention and still there
C21_Witness ==
    /\ Len(crumbLog) >= 2
    /\ Expired(crumbLog[Len(crumbLog)], now)
    /\ crumbLog[Len(crumbLog)] \notin Range(breadcrumbs)
    /\ \E i \in 1..(Len(crumbLog) - 1) :
         /\ crumbLog[i] \in Range(breadcrumbs)
         /\ ~Expired(crumbLog[i], now)


(***************************************************************************)
(* SpecSanitize: sanitize applied to an argument, then to its own result.  *)
(***************************************************************************)
HeapKeys == {"password", "note"}

\* what a property or an array slot of an argument may hold
SlotValues ==
    {Prim("secret"), [t |-> "error"], [t |-> "hostile"]}
        \cup {[t |-> "ref", id |-> n] : n \in 1..MaxNodes}

HeapObjects ==
    {[t |-> "obj", fields |-> f] : f \in UNION {[K -> SlotValues] : K \in SUBSET HeapKeys}}

HeapArrays ==
    {[t |-> "arr", items |-> <<>>]} \cup {[t |-> "arr", items |-> <<v>>] : v \in SlotValues}

\* node 1 is an object or an array, the others are objects with one property
Heaps ==
    {h \in [1..MaxNodes -> HeapObjects \cup HeapArrays] :
        \A n \in 2..MaxNodes : h[n].t = "obj" /\ Cardinality(DOMAIN h[n].fields) = 1}

NoHeap == [n \in 1..MaxNodes |-> [t |-> "obj", fields |-> <<>>]]

LeafValues ==
    {Prim("secret"), [t |-> "null"], [t |-> "date"], [t |-> "error"], [t |-> "hostile"]}

Sanitizers ==
    [autoRedact : BOOLEAN, customPatterns : {{}, {"note"}},
     redactedValue : {REDACTED}, maxDepth : 1..MaxDepthArg]

InitSanitize ==
    /\ ls = Null
    /\ mem = Null
    /\ isAvailable = TRUE
    /\ queue = <<>>
    /\ maxSize = 1
    /\ now = 1
    /\ nextId = 1
    /\ added = <<>>
    /\ onlyAdds = FALSE
    /\ tx = TxIdle
    /\ txLog = <<>>
    /\ TrackerIdle
    /\ CrumbsIdle
    /\ AppIdle
    /\ UtilIdle
    /\ sanitizer \in Sanitizers
    /\ \/ root \in LeafValues /\ heap = NoHeap
       \/ root = [t |-> "ref", id |-> 1] /\ heap \in Heaps
    /\ sanitized = Null
    /\ resanitized = Null

\* sanitizer.sanitize(root, maxDepth)
SanFirst ==
    /\ sanitized = Null
    /\ sanitized' = Sanitize(sanitizer, heap, root, sanitizer.maxDepth)
    /\ UNCHANGED <<heap, root, sanitizer, resanitized>>

\* sanitizer.sanitize(result, maxDepth) on the result of the first call
SanAgain ==
    /\ sanitized # Null
    /\ resanitized = Null
    /\ resanitized' = Sanitize(sanitizer, heap, sanitized, sanitizer.maxDepth)
    /\ UNCHANGED <<heap, root, sanitizer, sanitized>>

SanitizeOnly ==
    UNCHANGED <<storeVars, queueVars, now, nextId, queueHist, txVars, trackerVars,
                trackerHist, crumbVars, appVars, utilVars>>

NextSanitize ==
    \/ SanFirst /\ SanitizeOnly
    \/ SanAgain /\ SanitizeOnly

SpecSanitize == InitSanitize /\ [][NextSanitize]_vars

RECURSIVE Clean(_, _, _)
\* no key of v that a pattern of pats matches holds anything but the marker
Clean(v, pats, marker) ==
    IF v.t = "obj"
    THEN \A key \in DOMAIN v.fields :
            IF \E pattern \in pats : <<pattern, key>> \in Matches
            THEN v.fields[key] = Prim(marker)
            ELSE Clean(v.fields[key], pats, marker)
    ELSE IF v.t = "arr"
    THEN \A i \in 1..Len(v.items) : Clean(v.items[i], pats, marker)
    ELSE TRUE

RECURSIVE Contains(_, _)
\* the string occurs as a value somewhere in v
Contains(v, str) ==
    IF v.t = "obj" THEN \E key \in DOMAIN v.fields : Contains(v.fields[key], str)
    ELSE IF v.t = "arr" THEN \E i \in 1..Len(v.items) : Contains(v.items[i], str)
    ELSE v = Prim(str)

\* the patterns in force: the custom ones, and the built-in ones under autoRedact
ActivePatterns(sz) ==
    sz.customPatterns \cup (IF sz.autoRedact THEN DEFAULT_REDACT_PATTERNS ELSE {})

\* the argument is an object whose property `note`, which no pattern in
\* force matches, refers to the object itself; the sanitizer redacts
SelfReferencing ==
    /\ root = [t |-> "ref", id |-> 1]
    /\ heap[1].t = "obj"
    /\ "note" \in DOMAIN heap[1].fields
    /\ heap[1].fields["note"] = root
    /\ sanitizer.autoRedact
    /\ ~ShouldRedact(sanitizer, "note")

C18_Idempotent ==
    (resanitized # Null /\ sanitizer.autoRedact) => resanitized = sanitized

(***************************************************************************)
(* C19: the result of sanitizing a self-referencing object contains the    *)
(* circular-reference marker.                                              *)
(***************************************************************************)
C19_CycleMarked ==
    (sanitized # Null /\ SelfReferencing) => Contains(sanitized, CIRCULAR_REFERENCE)


(***************************************************************************)
(* SpecTransport: one Transport, one send call at a time                   *)
(***************************************************************************)
TxStatuses == {200, 400, 401, 403, 404, 408, 422, 429, 499, 500, 502, 503, 599}

TxBatch == <<[event_id |-> 1, timestamp |-> 1]>>

TxBodies ==
    {[kind |-> "ids", ids |-> {1}], [kind |-> "noids"], [kind |-> "bad"],
     [kind |-> "nonlist"]}

TxResponses ==
    {[kind |-> "network"]}
        \cup {[kind |-> "http", status |-> st, body |-> b] :
                st \in {x \in TxStatuses : ResponseOk(x)}, b \in TxBodies}
        \cup {[kind |-> "http", status |-> st, body |-> [kind |-> "text"]] :
                st \in {x \in TxStatuses : ~ResponseOk(x)}}

InitTransport ==
    /\ ls = Null
    /\ mem = Null
    /\ isAvailable = TRUE
    /\ queue = <<>>
    /\ maxSize = 1
    /\ now = 1
    /\ nextId = 1
    /\ added = <<>>
    /\ onlyAdds = FALSE
    /\ tx = TxIdle
    /\ txLog = <<>>
    /\ TrackerIdle
    /\ CrumbsIdle
    /\ AppIdle
    /\ SanitizerIdle
    /\ UtilIdle

\* transport.send(events) on a Transport built with attempt budget n
TxSend(events, n, hasEndpoint) ==
    /\ tx.pc \in {"idle", "done"}
    /\ tx' = SendStart(events, n, hasEndpoint)
    /\ txLog' = <<>>

\* the pending fetch settles
TxRespond(r) ==
    /\ tx.pc = "fetch"
    /\ tx' = SendOnResponse(tx, r)
    /\ txLog' = Append(txLog, r)

\* the backoff sleep ends
TxWake ==
    /\ tx.pc = "sleep"
    /\ tx' = SendWake(tx)
    /\ UNCHANGED txLog

TransportOnly ==
    UNCHANGED <<storeVars, queueVars, now, nextId, queueHist, trackerVars, trackerHist,
                crumbVars, appVars, sanVars, utilVars>>

NextTransport ==
    \/ \E b \in {<<>>, TxBatch}, n \in 0..MaxRetry, ep \in BOOLEAN :
         TxSend(b, n, ep) /\ TransportOnly
    \/ \E r \in TxResponses : TxRespond(r) /\ TransportOnly
    \/ TxWake /\ TransportOnly

SpecTransport == InitTransport /\ [][NextTransport]_vars

\* the statuses the specification calls retryable
RetryableStatus(st) == st \in 500..599 \/ st \in {408, 429}

IsErrorStatus(r) == r.kind = "http" /\ ~ResponseOk(r.status)

\* what a failed send reports for an attempt that ended with r
ErrorOf(r) ==
    IF r.kind = "http"
    THEN [status |-> r.status, text |-> "text"]
    ELSE [status |-> NoStatus, text |-> "exception"]

(***************************************************************************)
(* C9: a non-2xx response is followed by another request only when its     *)
(* status is 5xx, 429 or 408; any other non-2xx status on the first        *)
(* attempt ends the send with failure after that one request; a retryable  *)
(* status with attempts remaining leads to another attempt.                *)
(***************************************************************************)
C9_RetryPartition ==
    /\ \A i \in 1..Len(txLog) :
         (IsErrorStatus(txLog[i]) /\ i < Len(txLog)) => RetryableStatus(txLog[i].status)
    /\ (Len(txLog) >= 1 /\ IsErrorStatus(txLog[1]) /\ ~RetryableStatus(txLog[1].status))
         => (tx.pc = "done" /\ Len(txLog) = 1 /\ ~tx.result.success)
    /\ (Len(txLog) >= 1 /\ IsErrorStatus(txLog[Len(txLog)])
          /\ RetryableStatus(txLog[Len(txLog)].status) /\ Len(txLog) < tx.maxAttempts)
         => tx.pc \in {"sleep", "fetch"}

\* a 429 was retried and the 404 that followed it was not
C9_Witness ==
    /\ tx.pc = "done"
    /\ Len(txLog) = 2
    /\ txLog[1].kind = "http" /\ txLog[1].status = 429
    /\ txLog[2].kind = "http" /\ txLog[2].status = 404
    /\ ~tx.result.success

(***************************************************************************)
(* C10: a send with attempt budget N makes at most N HTTP requests and     *)
(* has returned once N are made; when every attempt ended in a retryable   *)
(* status or a network exception it made exactly N requests and returned   *)
(* failure with the last observed status/error.                            *)
(***************************************************************************)
C10_AttemptBudget ==
    tx.pc # "idle" =>
        /\ Len(txLog) <= tx.maxAttempts
        /\ (tx.pc # "done") => Len(txLog) < tx.maxAttempts
        /\ (/\ tx.pc = "done"
            /\ txLog # <<>>
            /\ \A i \in 1..Len(txLog) :
                 \/ txLog[i].kind = "network"
                 \/ IsErrorStatus(txLog[i]) /\ RetryableStatus(txLog[i].status))
           => /\ Len(txLog) = tx.maxAttempts
              /\ ~tx.result.success
              /\ tx.result.error = ErrorOf(txLog[Len(txLog)])

\* the budget was used up by a network exception followed by a 500
C10_Witness ==
    /\ tx.pc = "done"
    /\ tx.maxAttempts = 2
    /\ Len(txLog) = 2
    /\ txLog[1].kind = "network"
    /\ txLog[2].kind = "http" /\ txLog[2].status = 500
    /\ tx.result.error = [status |-> 500, text |-> "text"]


(***************************************************************************)
(* ErrorTracker (core/tracker.ts)                                          *)
(*                                                                         *)
(* A flight is one sendQueuedEvents invocation suspended at an await:      *)
(* [origin, send].  send is the Transport.send record; origin is the       *)
(* caller that awaits it: "flush" (flush()), "timer" (safeAsyncSend, from  *)
(* either timer) or "shutdown" (the final flush of shutdown(), whose       *)
(* remaining statement, isInitialized = false, runs when the flush is      *)
(* over).                                                                  *)
(*                                                                         *)
(* The runtime's timers are state of their own: `timeouts` holds the ticks *)
(* of every pending setTimeout of debouncedSend, oldest first, and the     *)
(* field sendDebounceTimer is "unset", or a handle to the newest of them   *)
(* ("pending"), or a handle to one that has fired ("fired").  An interval  *)
(* whose handle was overwritten keeps firing: leakedInterval.              *)
(*                                                                         *)
(* The collector acknowledges only ids it was sent: the event_ids of a     *)
(* response are drawn from the batch of the request.                       *)
(***************************************************************************)
\* sampleRate is in hundredths, and so is the number Math.random() gives
RateOne == 100

\* what a configured callback does: getUserId is absent, returns an id, or
\* throws
Callbacks == {"none", "returns", "throws"}

\* the configurations the tracker is given: the defaults of defaultConfig for
\* what a specification does not vary.  enabled and sampleRate are kept as
\* JavaScript values: a merged configuration can hold undefined there
ConfigsWith(modes, sizes, enabled, rates, crumbs, getUserIds, onError) ==
    [sendOnErrorOnly : modes, maxQueueSize : sizes, retryAttempts : {MaxRetry},
     enabled : {Prim(e) : e \in enabled}, hasEndpoint : {TRUE},
     debounceMs : {DebounceTicks}, maxBreadcrumbs : {MaxCrumbSize},
     breadcrumbRetentionMs : {RETENTION_MS}, breadcrumbsEnabled : crumbs,
     sampleRate : {Prim(r) : r \in rates}, captureState : {TRUE},
     getUserId : getUserIds, onTransportError : onError]

TrackerConfigs ==
    ConfigsWith(BOOLEAN, MaxSizes, {TRUE}, {RateOne}, {TRUE}, {"none"}, {TRUE})

\* the statuses the collector answers a flush with: success and a terminal
\* one; a flush retries after a network error, and SpecTransport tells the
\* statuses apart
FlightStatuses == {200, 400}

FlightResponses(f) ==
    {[kind |-> "network"]}
        \cup {[kind |-> "http", status |-> 200, body |-> [kind |-> "ids", ids |-> S]] :
                S \in SUBSET Ids(f.send.events)}
        \cup {[kind |-> "http", status |-> 200, body |-> [kind |-> k]] :
                k \in {"noids", "bad", "nonlist"}}
        \cup {[kind |-> "http", status |-> st, body |-> [kind |-> "text"]] :
                st \in {x \in FlightStatuses : ~ResponseOk(x)}}

RemoveAt(seq, i) == SubSeq(seq, 1, i - 1) \o SubSeq(seq, i + 1, Len(seq))

Front(seq) == SubSeq(seq, 1, Len(seq) - 1)

IdSeq(q) == [i \in 1..Len(q) |-> q[i].event_id]

\* sendQueuedEvents() returned at `events.length === 0`, before any send
SendSkipped ==
    [pc |-> "done", attempt |-> 0, events |-> <<>>, maxAttempts |-> 0,
     lastStatus |-> NoStatus, lastError |-> "", result |-> Null]

\* mutant of StartFlush: a flush that finds another one awaiting its response
\* returns without sending
StartFlushSerialized(fl, origin, q, cfg) ==
    LET s == IF q = <<>> THEN SendSkipped
             ELSE SendStart(q, cfg.retryAttempts, cfg.hasEndpoint)
        busy == \E i \in 1..Len(fl) : fl[i].send.pc # "done"
    IN  IF (s.pc = "done" \/ busy) /\ origin # "shutdown"
        THEN fl
        ELSE Append(fl, [origin |-> origin, send |-> s])

\* sendQueuedEvents() up to its await: the flights once a flush has started
\* on queue q.  Only shutdown() has code after a flush that is already over.
StartFlush(fl, origin, q, cfg) ==
    LET s == IF q = <<>> THEN SendSkipped
             ELSE SendStart(q, cfg.retryAttempts, cfg.hasEndpoint)
    IN  IF s.pc = "done" /\ origin # "shutdown"
        THEN fl
        ELSE Append(fl, [origin |-> origin, send |-> s])

\* a queue operation returned
Returned(r) == [queue |-> r.queue, store |-> r.store, threw |-> FALSE]

\* queue.remove(eventIds) as sendQueuedEvents calls it: `new Set(eventIds)`,
\* its first statement, throws a TypeError when eventIds cannot be iterated
RemoveAcked(q, res, st) ==
    IF res.iterable
    THEN Returned(QueueRemove(q, res.eventIds, st, TRUE))
    ELSE [queue |-> q, store |-> st, threw |-> TRUE]

\* mutant of AfterSend: the result's success flag is not looked at
AfterSendIgnoresFailure(q, res, st) ==
    IF "eventIds" \in DOMAIN res
    THEN RemoveAcked(q, res, st)
    ELSE Returned(QueueClear(st, TRUE))

\* mutant of AfterSend: every success clears the whole queue
AfterSendClearsQueue(q, res, st) ==
    IF res.success
    THEN Returned(QueueClear(st, TRUE))
    ELSE [queue |-> q, store |-> st, threw |-> FALSE]

\* sendQueuedEvents() after `await this.transport.send(events)` gave res;
\* threw: it ended by throwing
AfterSend(q, res, st) ==
    IF res.success
    THEN IF "eventIds" \in DOMAIN res
         THEN RemoveAcked(q, res, st)
         ELSE Returned(QueueClear(st, TRUE))
    ELSE [queue |-> q, store |-> st, threw |-> FALSE]

\* mutant of Settle: shutdown() awaits its final flush outside any try
SettleShutdownUncaught(origin, threw, cfg) ==
    [rejected |-> threw /\ origin # "timer",
     notified |-> threw /\ origin = "timer" /\ cfg.onTransportError]

\* what the caller awaiting sendQueuedEvents makes of its end: flush() has no
\* handler, so its promise rejects with what was thrown; safeAsyncSend and
\* shutdown() catch it and pass it on to config.onTransportError if set
Settle(origin, threw, cfg) ==
    [rejected |-> threw /\ origin = "flush",
     notified |-> threw /\ origin # "flush" /\ cfg.onTransportError]

\* clearTimeout(this.sendDebounceTimer) on the timer state tm = [field, timeouts]
ClearTimeout(tm) ==
    IF tm.field = "pending" THEN Front(tm.timeouts) ELSE tm.timeouts

\* mutant of DebouncedSend: the pending timer is not cleared
DebouncedSendNoClear(tm) ==
    [field |-> "pending", timeouts |-> Append(tm.timeouts, 0)]

\* debouncedSend(): clear the timer the field refers to, arm a new one
DebouncedSend(tm) ==
    [field |-> "pending",
     timeouts |-> Append(IF tm.field # "unset" THEN ClearTimeout(tm) ELSE tm.timeouts, 0)]

\* the timer state after captureError's `if (this.config.sendOnErrorOnly)`
AfterCapture(tm, cfg) ==
    IF cfg.sendOnErrorOnly THEN DebouncedSend(tm) ELSE tm

\* shutdown(): `if (this.sendDebounceTimer) { clearTimeout; = undefined }`
ShutdownTimer(tm) ==
    IF tm.field # "unset"
    THEN [field |-> "unset", timeouts |-> ClearTimeout(tm)]
    ELSE tm

TimerState == [field |-> sendDebounceTimer, timeouts |-> timeouts]

SetTimer(tm) ==
    /\ sendDebounceTimer' = tm.field
    /\ timeouts' = tm.timeouts

Other == [op |-> "other"]

\* { ...f, ...g }
Spread(f, g) ==
    [k \in DOMAIN f \cup DOMAIN g |-> IF k \in DOMAIN g THEN g[k] ELSE f[k]]

\* the own properties a spread of v copies: none for undefined
FieldsOf(v) == IF v.t = "obj" THEN v.fields ELSE <<>>

Undefined == [t |-> "null"]

\* an ErrorContext without extra and user, and the absent context argument
NoContext == [extra |-> Undefined, user |-> Undefined]

\* the DataSanitizer init() builds from defaultConfig.sanitize
TrackerSanitizer ==
    [autoRedact |-> TRUE, customPatterns |-> {}, redactedValue |-> REDACTED]

\* the default of sanitize's maxDepth parameter
DEFAULT_MAX_DEPTH == 10

\* what the getState of a registered store plugin returns
PluginState ==
    [t |-> "obj", fields |-> [k \in {"password", "note"} |-> Prim("secret")]]

\* `!v` for a value that is a boolean or undefined
Not(v) == v.t = "null" \/ v.v = FALSE

\* shouldSample(), rnd being what Math.random() gives.  Every comparison of
\* undefined with a number is false, so all three tests fail on it
ShouldSample(cfg, rnd) ==
    LET rate == cfg.sampleRate
    IN  IF rate.t = "null" THEN FALSE
        ELSE IF rate.v >= RateOne THEN TRUE
        ELSE IF rate.v <= 0 THEN FALSE
        ELSE rnd < rate.v

\* `userId`, after the fallback to config.getUserId: "" when there is none
UserId(cfg) ==
    IF userInfo # Null /\ "id" \in DOMAIN userInfo.fields
    THEN userInfo.fields.id.v
    ELSE IF cfg.getUserId = "returns" THEN "from-callback"
    ELSE ""

\* buildErrorEvent throws: a getState it calls does, or getUserId does
BuildThrows(cfg) ==
    \/ cfg.captureState /\ plugins = "throws"
    \/ /\ ~(userInfo # Null /\ "id" \in DOMAIN userInfo.fields)
       /\ cfg.getUserId = "throws"

\* buildErrorEvent(eventId, error, context) at time t, when it returns: the
\* fields of the event that carry data of the application
BuildErrorEvent(id, t, context, cfg) ==
    LET state == IF cfg.captureState /\ plugins = "returns"
                 THEN [t |-> "obj", fields |-> [k \in {"store"} |-> PluginState]]
                 ELSE [t |-> "obj", fields |-> <<>>]
        userId == UserId(cfg)
        user == IF userId # ""
                THEN [t |-> "obj",
                      fields |-> Spread(Spread([k \in {"id"} |-> Prim(userId)],
                                               IF userInfo = Null THEN <<>>
                                               ELSE userInfo.fields),
                                        FieldsOf(context.user))]
                ELSE context.user
        extra == [t |-> "obj",
                  fields |-> Spread(contextData.fields, FieldsOf(context.extra))]
    IN  [event_id |-> id, timestamp |-> t,
         state |-> Sanitize(TrackerSanitizer, NoHeap, state, DEFAULT_MAX_DEPTH),
         user |-> user,
         extra |-> extra]

\* mutant of DropReason: a tracker that was shut down still counts as
\* initialized
DropReasonIgnoresShutdown(ign, rnd) ==
    IF config = NoConfig THEN "uninitialized"
    ELSE IF Not(config.enabled) THEN "disabled"
    ELSE IF ign THEN "ignored"
    ELSE IF ~ShouldSample(config, rnd) THEN "sampling"
    ELSE ""

\* why a capture call returns '' before it builds an event, "" if it does not
DropReason(ign, rnd) ==
    IF ~isInitialized THEN "uninitialized"
    ELSE IF Not(config.enabled) THEN "disabled"
    ELSE IF ign THEN "ignored"
    ELSE IF ~ShouldSample(config, rnd) THEN "sampling"
    ELSE ""

InitTracker ==
    /\ ls = Null
    /\ mem = Null
    /\ isAvailable = TRUE
    /\ queue = <<>>
    /\ maxSize = 0
    /\ now = 1
    /\ nextId = 1
    /\ added = <<>>
    /\ onlyAdds = FALSE
    /\ tx = TxIdle
    /\ txLog = <<>>
    /\ TrackerIdle
    /\ CrumbsIdle
    /\ AppIdle
    /\ SanitizerIdle
    /\ UtilIdle

\* init(userConfig)
TInit(cfg) ==
    /\ Len(flights) < MaxFlights
    /\ flights' = IF isInitialized
                  THEN StartFlush(flights, "shutdown", queue, config)
                  ELSE flights
    /\ SetTimer(IF isInitialized THEN ShutdownTimer(TimerState) ELSE TimerState)
    /\ config' = cfg
    /\ SetQueue(Restore(Store, now, TRUE))
    /\ maxSize' = cfg.maxQueueSize
    /\ flushIntervalId' = IF cfg.sendOnErrorOnly
                          THEN (~isInitialized /\ flushIntervalId)
                          ELSE TRUE
    /\ leakedInterval' = (leakedInterval \/
                            (~isInitialized /\ flushIntervalId /\ ~cfg.sendOnErrorOnly))
    /\ isInitialized' = TRUE
    /\ breadcrumbs' = <<>>
    /\ maxBreadcrumbs' = cfg.maxBreadcrumbs
    /\ retentionMs' = cfg.breadcrumbRetentionMs
    /\ crumbLog' = <<>>
    /\ lifecycle' = IF isInitialized THEN "reinit" ELSE "init"
    /\ last' = Other
    /\ UNCHANGED <<now, nextId, evicted, appVars>>

\* what captureError and captureMessage share.  ign: the message matches an
\* ignore pattern; rnd: what Math.random() gives; arms: the level is one that
\* send-on-error-only mode sends for; api: the method called.  A call that
\* throws out of buildErrorEvent has changed nothing.
Capture(ign, rnd, context, arms, api) ==
    LET drop == DropReason(ign, rnd)
    IN  IF drop # ""
        THEN /\ last' = [op |-> "capture", api |-> api, ret |-> 0, ign |-> ign,
                         drop |-> drop, threw |-> FALSE]
             /\ UNCHANGED <<storeVars, queueVars, now, nextId, trackerVars, evicted,
                            lifecycle, crumbVars, appVars>>
        ELSE IF BuildThrows(config)
        THEN /\ last' = [op |-> "capture", api |-> api, ret |-> 0, ign |-> ign,
                         drop |-> drop, threw |-> TRUE]
             /\ UNCHANGED <<storeVars, queueVars, now, nextId, trackerVars, evicted,
                            lifecycle, crumbVars, appVars>>
        ELSE /\ nextId <= MaxCaptures
             /\ SetQueue(QueueAdd(queue, BuildErrorEvent(nextId, now, context, config),
                                  maxSize, Store, TRUE))
             /\ nextId' = nextId + 1
             /\ SetTimer(IF arms THEN AfterCapture(TimerState, config) ELSE TimerState)
             /\ last' = [op |-> "capture", api |-> api, ret |-> nextId, ign |-> ign,
                         drop |-> drop, threw |-> FALSE]
             /\ evicted' = evicted \cup (Ids(queue) \ Ids(queue'))
             /\ UNCHANGED <<maxSize, now, isInitialized, config, flushIntervalId,
                            leakedInterval, flights, lifecycle, crumbVars, appVars>>

\* captureError(error, context)
CaptureError(ign, rnd, context) == Capture(ign, rnd, context, TRUE, "captureError")

\* captureException(exception, context): the same guard, then captureError
\* of the exception or of an Error made from it
CaptureException(ign, rnd, context) ==
    Capture(ign, rnd, context, TRUE, "captureException")

SeverityLevels == {"debug", "info", "warning", "error", "fatal"}

\* mutant of CaptureMessage: a message of any level arms the debounced send
CaptureMessageAlwaysArms(ign, rnd, level) ==
    Capture(ign, rnd, NoContext, TRUE, "captureMessage")

\* captureMessage(message, level)
CaptureMessage(ign, rnd, level) ==
    Capture(ign, rnd, NoContext, level \in {"error", "fatal"}, "captureMessage")

\* addBreadcrumb(breadcrumb), the breadcrumb stamped with the current time
AddBreadcrumb ==
    /\ IF ~isInitialized \/ ~config.breadcrumbsEnabled
       THEN UNCHANGED crumbVars
       ELSE /\ Len(crumbLog) < MaxTrackerCrumbs
            /\ LET b == [id |-> Len(crumbLog) + 1, timestamp |-> now]
               IN  /\ breadcrumbs' = BreadcrumbAdd(breadcrumbs, b, now, maxBreadcrumbs,
                                                   retentionMs)
                   /\ crumbLog' = Append(crumbLog, b)
            /\ UNCHANGED <<maxBreadcrumbs, retentionMs>>
    /\ last' = [op |-> "crumb"]
    /\ UNCHANGED <<storeVars, queueVars, now, nextId, trackerVars, evicted, lifecycle,
                   appVars>>

\* setUser(user)
SetUser(user) ==
    /\ userInfo' = user
    /\ last' = Other
    /\ UNCHANGED <<storeVars, queueVars, now, nextId, trackerVars, evicted, lifecycle,
                   crumbVars, plugins, contextData>>

\* setContext(key, value)
SetContext(key, value) ==
    /\ contextData' = [t |-> "obj",
                       fields |-> Spread(contextData.fields, [k \in {key} |-> value])]
    /\ last' = Other
    /\ UNCHANGED <<storeVars, queueVars, now, nextId, trackerVars, evicted, lifecycle,
                   crumbVars, plugins, userInfo>>

\* registerPlugin(plugin) of the store plugin, whose getState returns or throws
RegisterPlugin(getState) ==
    /\ plugins' = getState
    /\ last' = Other
    /\ UNCHANGED <<storeVars, queueVars, now, nextId, trackerVars, evicted, lifecycle,
                   crumbVars, userInfo, contextData>>

\* flush() up to `await this.sendQueuedEvents()`, or all of it when it
\* returns at once
Flush ==
    /\ UNCHANGED <<crumbVars, appVars>>
    /\ IF ~isInitialized
       THEN UNCHANGED flights
       ELSE /\ Len(flights) < MaxFlights
            /\ flights' = StartFlush(flights, "flush", queue, config)
    /\ last' = [op |-> "flush"]
    /\ UNCHANGED <<storeVars, queueVars, now, nextId, isInitialized, config,
                   flushIntervalId, leakedInterval, sendDebounceTimer, timeouts,
                   evicted, lifecycle>>

\* shutdown() up to `await this.sendQueuedEvents()`, or all of it when it
\* returns at once
Shutdown ==
    /\ UNCHANGED <<crumbVars, appVars>>
    /\ IF ~isInitialized
       THEN /\ last' = [op |-> "resolved"]
            /\ UNCHANGED <<flushIntervalId, sendDebounceTimer, timeouts, flights,
                           lifecycle>>
       ELSE /\ Len(flights) < MaxFlights
            /\ flushIntervalId' = FALSE
            /\ SetTimer(ShutdownTimer(TimerState))
            /\ flights' = StartFlush(flights, "shutdown", queue, config)
            /\ lifecycle' = "shutdown"
            /\ last' = Other
    /\ UNCHANGED <<storeVars, queueVars, now, nextId, isInitialized, config,
                   leakedInterval, evicted>>

\* a setInterval callback: safeAsyncSend()
PeriodicFire ==
    /\ UNCHANGED <<crumbVars, appVars>>
    /\ flushIntervalId \/ leakedInterval
    /\ Len(flights) < MaxFlights
    /\ flights' = StartFlush(flights, "timer", queue, config)
    /\ last' = Other
    /\ UNCHANGED <<storeVars, queueVars, now, nextId, isInitialized, config,
                   flushIntervalId, leakedInterval, sendDebounceTimer, timeouts,
                   evicted, lifecycle>>

\* the callback of pending timeout j, due after debounceMs: safeAsyncSend()
DebounceFire(j) ==
    /\ UNCHANGED <<crumbVars, appVars>>
    /\ timeouts[j] >= config.debounceMs
    /\ Len(flights) < MaxFlights
    /\ timeouts' = RemoveAt(timeouts, j)
    /\ sendDebounceTimer' = IF j = Len(timeouts) /\ sendDebounceTimer = "pending"
                            THEN "fired" ELSE sendDebounceTimer
    /\ flights' = StartFlush(flights, "timer", queue, config)
    /\ last' = Other
    /\ UNCHANGED <<storeVars, queueVars, now, nextId, isInitialized, config,
                   flushIntervalId, leakedInterval, evicted, lifecycle>>

\* one tick of the clock the timeouts run on
Tick ==
    /\ UNCHANGED <<crumbVars, appVars>>
    /\ \E j \in 1..Len(timeouts) : timeouts[j] < config.debounceMs
    /\ timeouts' = [j \in 1..Len(timeouts) |-> Min(timeouts[j] + 1, config.debounceMs)]
    /\ last' = Other
    /\ UNCHANGED <<storeVars, queueVars, now, nextId, isInitialized, config,
                   flushIntervalId, leakedInterval, sendDebounceTimer, flights,
                   evicted, lifecycle>>

\* the HTTP request of flight i settles with r; when that ends the send, the
\* rest of sendQueuedEvents runs, and the rest of shutdown() after it
FlightRespond(i, r) ==
    /\ UNCHANGED <<crumbVars, appVars>>
    /\ flights[i].send.pc = "fetch"
    /\ LET s == SendOnResponse(flights[i].send, r)
       IN  IF s.pc = "done"
           THEN LET after == AfterSend(queue, s.result, Store)
                    origin == flights[i].origin
                    end == Settle(origin, after.threw, config)
                IN  /\ SetQueue(after)
                    /\ flights' = RemoveAt(flights, i)
                    /\ isInitialized' = IF origin = "shutdown" /\ ~end.rejected
                                        THEN FALSE ELSE isInitialized
                    /\ last' = [op |-> "complete", origin |-> origin,
                                batch |-> IdSeq(s.events),
                                success |-> s.result.success,
                                ack |-> IF s.result.success THEN r.body.kind ELSE "",
                                ids |-> IF s.result.success /\ r.body.kind = "ids"
                                        THEN r.body.ids ELSE {},
                                threw |-> after.threw,
                                rejected |-> end.rejected,
                                notified |-> end.notified]
           ELSE /\ flights' = [flights EXCEPT ![i].send = s]
                /\ last' = Other
                /\ UNCHANGED <<storeVars, queue, isInitialized>>
    /\ UNCHANGED <<maxSize, now, nextId, config, flushIntervalId, leakedInterval,
                   sendDebounceTimer, timeouts, evicted, lifecycle>>

\* the backoff sleep of flight i ends
FlightWake(i) ==
    /\ UNCHANGED <<crumbVars, appVars>>
    /\ flights[i].send.pc = "sleep"
    /\ flights' = [flights EXCEPT ![i].send = SendWake(flights[i].send)]
    /\ last' = Other
    /\ UNCHANGED <<storeVars, queueVars, now, nextId, isInitialized, config,
                   flushIntervalId, leakedInterval, sendDebounceTimer, timeouts,
                   evicted, lifecycle>>

\* shutdown() resumes after a final flush that had nothing to send
ShutdownResume(i) ==
    /\ UNCHANGED <<crumbVars, appVars>>
    /\ flights[i].origin = "shutdown"
    /\ flights[i].send.pc = "done"
    /\ flights' = RemoveAt(flights, i)
    /\ isInitialized' = FALSE
    /\ last' = [op |-> "resolved"]
    /\ UNCHANGED <<storeVars, queueVars, now, nextId, config, flushIntervalId,
                   leakedInterval, sendDebounceTimer, timeouts, evicted, lifecycle>>

TrackerOnly == UNCHANGED <<txVars, queueHist, sanVars, utilVars>>

NoBurst == UNCHANGED burstVars

Next ==
    \/ \E cfg \in TrackerConfigs : TInit(cfg) /\ TrackerOnly /\ NoBurst
    \/ \E ign \in BOOLEAN : CaptureError(ign, 0, NoContext) /\ TrackerOnly /\ NoBurst
    \/ Flush /\ TrackerOnly /\ NoBurst
    \/ Shutdown /\ TrackerOnly /\ NoBurst
    \/ PeriodicFire /\ TrackerOnly /\ NoBurst
    \/ \E j \in 1..Len(timeouts) : DebounceFire(j) /\ TrackerOnly /\ NoBurst
    \/ Tick /\ TrackerOnly /\ NoBurst
    \/ \E i \in 1..Len(flights) : \E r \in FlightResponses(flights[i]) :
         FlightRespond(i, r) /\ TrackerOnly /\ NoBurst
    \/ \E i \in 1..Len(flights) : FlightWake(i) /\ TrackerOnly /\ NoBurst
    \/ \E i \in 1..Len(flights) : ShutdownResume(i) /\ TrackerOnly /\ NoBurst

Spec == InitTracker /\ [][Next]_vars


\* what `last` says of the step that led here
FlushFailed(l) == l.op = "complete" /\ ~l.success

FlushAckedList(l) == l.op = "complete" /\ l.success /\ l.ack = "ids"

FlushAckedBatch(l) == l.op = "complete" /\ l.success /\ l.ack = "noids"

Captured(l) == l.op = "capture" /\ l.ret # 0

NoShutdownPending == \A i \in 1..Len(flights) : flights[i].origin # "shutdown"

\* shutdown() has resolved in the step that led here
ShutdownResolved(l) ==
    \/ l.op = "resolved"
    \/ l.op = "complete" /\ l.origin = "shutdown" /\ ~l.rejected

(***************************************************************************)
(* C3: init on an initialized tracker leaves it initialized: once the      *)
(* implicit shutdown has run to its end the tracker is initialized, and a  *)
(* captureError of an error no pattern ignores returns an event id.        *)
(***************************************************************************)
C3_ReinitLeavesInitialized ==
    (lifecycle = "reinit" /\ NoShutdownPending) =>
        /\ isInitialized
        /\ (last.op = "capture" /\ ~last.ign) => last.ret # 0

(***************************************************************************)
(* C4, as claimed: when a flush ends in a transport failure, every event   *)
(* that was queued when it started and that the size bound has not evicted *)
(* is still queued, in the same order.  Stated for a tracker initialized   *)
(* once and not shut down.                                                 *)
(***************************************************************************)
C4_FailedFlushKeepsItsBatch ==
    (lifecycle = "init" /\ FlushFailed(last)) =>
        SelectSeq(last.batch, LAMBDA id : id \notin evicted)
            = SelectSeq(IdSeq(queue), LAMBDA id : id \in Range(last.batch))

(***************************************************************************)
(* C4, amended: the completion of a flush that ends in a transport failure *)
(* leaves the queue exactly as it was just before it.                      *)
(***************************************************************************)
C4_FailedFlushRemovesNothing ==
    [][FlushFailed(last') => queue' = queue]_vars

\* a flush has just failed and its whole batch is still queued
C4_Witness ==
    /\ FlushFailed(last)
    /\ last.batch # <<>>
    /\ IdSeq(queue) = last.batch

(***************************************************************************)
(* C5: when a flush ends with a 2xx response whose body lists event_ids,   *)
(* exactly the queued events with a listed id are removed; the others stay *)
(* in their order.                                                         *)
(***************************************************************************)
C5_ListedIdsRemoved ==
    [][FlushAckedList(last') =>
         queue' = SelectSeq(queue, LAMBDA e : e.event_id \notin last'.ids)]_vars

\* a partial acknowledgement: one event of the batch listed, another kept
C5_Witness ==
    /\ FlushAckedList(last)
    /\ last.ids # {}
    /\ \E id \in Range(last.batch) : id \notin last.ids /\ id \in Ids(queue)
    /\ last.ids \cap Ids(queue) = {}

(***************************************************************************)
(* C6, as claimed: when a flush ends with a 2xx response that has no       *)
(* event_ids, the queue is empty.  Stated for a tracker initialized once   *)
(* and not shut down.                                                      *)
(***************************************************************************)
C6_UnlistedAckEmptiesQueue ==
    (lifecycle = "init" /\ FlushAckedBatch(last)) => queue = <<>>

(***************************************************************************)
(* C6, amended: when a flush ends with a 2xx response that has no          *)
(* event_ids, exactly the events of the batch it sent are removed; events  *)
(* queued since the flush started stay, in their order.                    *)
(***************************************************************************)
C6_UnlistedAckRemovesBatch ==
    [][FlushAckedBatch(last') =>
         queue' = SelectSeq(queue, LAMBDA e : e.event_id \notin Range(last'.batch))]_vars

\* the whole batch was accepted and an event captured meanwhile is still queued
C6_Witness ==
    /\ FlushAckedBatch(last)
    /\ queue # <<>>
    /\ Ids(queue) \cap Range(last.batch) = {}

(***************************************************************************)
(* C7: captureError enqueues its event in the same step, also while a      *)
(* flush is pending, and an event leaves the queue only when a flush whose *)
(* batch contains it completes or when an add evicts it as the oldest      *)
(* entry of a full queue.                                                  *)
(***************************************************************************)
C7_CaptureUnaffectedByFlush ==
    [][/\ Captured(last') => last'.ret \in Ids(queue')
       /\ \A id \in Ids(queue) \ Ids(queue') :
            \/ last'.op = "complete" /\ id \in Range(last'.batch)
            \/ Captured(last') /\ Len(queue) >= maxSize /\ id = queue[1].event_id]_vars

\* a flush has completed with success and an event that was captured while
\* its request was pending, so is not in its batch, is still queued
C7_Witness ==
    /\ last.op = "complete"
    /\ last.success
    /\ \E id \in Ids(queue) : id \notin Range(last.batch)

(***************************************************************************)
(* C15: whenever a flush ends in a transport failure, a terminal status or *)
(* an exhausted attempt budget, the configured onTransportError callback   *)
(* has been invoked with the final error.                                  *)
(***************************************************************************)
C15_FailureNotifiesCallback ==
    (FlushFailed(last) /\ config.onTransportError) => last.notified

(***************************************************************************)
(* SpecBurst: a tracker initialized once in send-on-error-only mode and    *)
(* then driven by captureError calls, the clock and the collector alone.   *)
(* sinceLast counts the ticks since the last accepted captureError (up to  *)
(* the debounce delay); a burst is a run of accepted calls each less than  *)
(* the debounce delay after the one before.                                *)
(***************************************************************************)
BInit(cfg) ==
    /\ ~isInitialized
    /\ cfg.sendOnErrorOnly
    /\ TInit(cfg)
    /\ NoBurst

BCapture(ign) ==
    /\ CaptureError(ign, 0, NoContext)
    /\ IF nextId' = nextId
       THEN UNCHANGED burstVars
       ELSE /\ sinceLast' = 0
            /\ IF burst # <<>> /\ sinceLast < config.debounceMs
               THEN /\ burst' = Append(burst, nextId)
                    /\ UNCHANGED burstSends
               ELSE /\ burst' = <<nextId>>
                    /\ burstSends' = <<>>

BTick ==
    /\ Tick
    /\ sinceLast' = Min(sinceLast + 1, config.debounceMs)
    /\ UNCHANGED <<burst, burstSends>>

BDebounceFire(j) ==
    /\ DebounceFire(j)
    /\ burstSends' = IF queue # <<>>
                     THEN Append(burstSends, [batch |-> Ids(queue), at |-> sinceLast])
                     ELSE burstSends
    /\ UNCHANGED <<sinceLast, burst>>

NextBurst ==
    \/ \E cfg \in TrackerConfigs : BInit(cfg) /\ TrackerOnly
    \/ \E ign \in BOOLEAN : BCapture(ign) /\ TrackerOnly
    \/ BTick /\ TrackerOnly
    \/ \E j \in 1..Len(timeouts) : BDebounceFire(j) /\ TrackerOnly
    \/ \E i \in 1..Len(flights) : \E r \in FlightResponses(flights[i]) :
         FlightRespond(i, r) /\ TrackerOnly /\ NoBurst
    \/ \E i \in 1..Len(flights) : FlightWake(i) /\ TrackerOnly /\ NoBurst

SpecBurst == InitTracker /\ [][NextBurst]_vars

(***************************************************************************)
(* C8: in send-on-error-only mode, for a burst of k <= maxQueueSize        *)
(* accepted captureError calls exactly one Transport.send is invoked: none *)
(* while the debounce timer runs, one once it has fired; that send starts  *)
(* no earlier than the debounce delay after the last call and its batch    *)
(* holds all k events.                                                     *)
(***************************************************************************)
C8_OneSendPerBurst ==
    (burst # <<>> /\ Len(burst) <= config.maxQueueSize) =>
        /\ Len(burstSends) <= 1
        /\ (burstSends = <<>>) = (timeouts # <<>>)
        /\ Len(timeouts) <= 1
        /\ \A j \in 1..Len(burstSends) :
             /\ burstSends[j].at >= config.debounceMs
             /\ Range(burst) \subseteq burstSends[j].batch

\* a burst of two calls was sent in one batch
C8_Witness ==
    /\ Len(burst) = 2
    /\ Len(burstSends) = 1
    /\ Range(burst) \subseteq burstSends[1].batch
    /\ burstSends[1].at >= config.debounceMs

(***************************************************************************)
(* SpecCapture: a tracker initialized once and then driven through its     *)
(* capture-side API: setUser, setContext, registerPlugin, the three        *)
(* capture methods and addBreadcrumb.  Nothing is sent.                    *)
(***************************************************************************)
\* Math.random(), in hundredths
Randoms == {0, 99}

CaptureConfigs ==
    ConfigsWith({TRUE}, {MaxQueueSize}, BOOLEAN, {0, 50, RateOne}, BOOLEAN,
                Callbacks, {TRUE})

\* arguments of setUser: with and without an id
UserInfos ==
    {[t |-> "obj", fields |-> [k \in {"id", "password"} |-> Prim("secret")]],
     [t |-> "obj", fields |-> [k \in {"password"} |-> Prim("secret")]]}

\* the context argument of a capture call: absent, or with extra data as the
\* HTTP integrations pass it
Contexts ==
    {NoContext,
     [extra |-> [t |-> "obj", fields |-> [k \in {"password"} |-> Prim("secret")]],
      user |-> Undefined]}

CInit(cfg) ==
    /\ ~isInitialized
    /\ TInit(cfg)

NextCapture ==
    \/ \E cfg \in CaptureConfigs : CInit(cfg) /\ TrackerOnly /\ NoBurst
    \/ \E user \in UserInfos : SetUser(user) /\ TrackerOnly /\ NoBurst
    \/ SetContext("password", Prim("secret")) /\ TrackerOnly /\ NoBurst
    \/ \E getState \in {"returns", "throws"} :
         RegisterPlugin(getState) /\ TrackerOnly /\ NoBurst
    \/ \E ign \in BOOLEAN, rnd \in Randoms, context \in Contexts :
         CaptureError(ign, rnd, context) /\ TrackerOnly /\ NoBurst
    \/ \E ign \in BOOLEAN, rnd \in Randoms, context \in Contexts :
         CaptureException(ign, rnd, context) /\ TrackerOnly /\ NoBurst
    \/ \E ign \in BOOLEAN, rnd \in Randoms, level \in SeverityLevels :
         CaptureMessage(ign, rnd, level) /\ TrackerOnly /\ NoBurst
    \/ AddBreadcrumb /\ TrackerOnly /\ NoBurst

SpecCapture == InitTracker /\ [][NextCapture]_vars

(***************************************************************************)
(* C13: captureError returns '' and leaves the queue and the debounce      *)
(* timer as they are when the tracker is uninitialized or disabled, the    *)
(* message matches an ignore pattern or sampling drops the event; in every *)
(* other case it returns a non-empty id and an event with that id is in    *)
(* the queue when the call returns.                                        *)
(***************************************************************************)
C13_CaptureErrorPartition ==
    [][(last'.op = "capture" /\ last'.api = "captureError") =>
         IF last'.drop # ""
         THEN /\ last'.ret = 0
              /\ ~last'.threw
              /\ queue' = queue
              /\ sendDebounceTimer' = sendDebounceTimer
              /\ timeouts' = timeouts
         ELSE /\ ~last'.threw
              /\ last'.ret # 0
              /\ last'.ret \in Ids(queue')]_vars

(***************************************************************************)
(* C14: no capture method throws to its caller, also when the getState of  *)
(* a registered plugin or the configured getUserId throws.                 *)
(***************************************************************************)
C14_CaptureNeverThrows == last.op = "capture" => ~last.threw

(***************************************************************************)
(* C16: in every queued event, no key of state, extra or user that a       *)
(* built-in redact pattern matches holds anything but the redaction        *)
(* marker.                                                                 *)
(***************************************************************************)
C16_QueuedEventsSanitized ==
    \A i \in 1..Len(queue) :
        /\ Clean(queue[i].state, DEFAULT_REDACT_PATTERNS, REDACTED)
        /\ Clean(queue[i].extra, DEFAULT_REDACT_PATTERNS, REDACTED)
        /\ Clean(queue[i].user, DEFAULT_REDACT_PATTERNS, REDACTED)

(***************************************************************************)
(* C23: with a sample rate of 0 or less no capture call enqueues anything; *)
(* with a sample rate of 1 or more every capture call on an initialized,   *)
(* enabled tracker whose message matches no ignore pattern enqueues        *)
(* exactly one event.                                                      *)
(***************************************************************************)
C23_SamplingExtremes ==
    [][(last'.op = "capture" /\ isInitialized) =>
         /\ config.sampleRate.v <= 0 => queue' = queue
         /\ (~Not(config.enabled) /\ config.sampleRate.v >= RateOne /\ ~last'.ign) =>
              /\ last'.ret # 0
              /\ Ids(queue') \ Ids(queue) = {last'.ret}]_vars

\* the same, for the calls that return
C23_SamplingExtremesOnReturn ==
    [][(last'.op = "capture" /\ isInitialized /\ ~last'.threw) =>
         /\ config.sampleRate.v <= 0 => queue' = queue
         /\ (~Not(config.enabled) /\ config.sampleRate.v >= RateOne /\ ~last'.ign) =>
              /\ last'.ret # 0
              /\ Ids(queue') \ Ids(queue) = {last'.ret}]_vars

(***************************************************************************)
(* SpecLife: the life cycle of a tracker as its caller drives it: init on   *)
(* an uninitialized tracker, the public methods, shutdown, and init again, *)
(* with the collector answering.  No timer fires.                          *)
(***************************************************************************)
LifeConfigs ==
    ConfigsWith(BOOLEAN, {MaxQueueSize}, {TRUE}, {RateOne}, {TRUE}, {"none"}, BOOLEAN)

NextLife ==
    \/ \E cfg \in LifeConfigs : CInit(cfg) /\ TrackerOnly /\ NoBurst
    \/ \E ign \in BOOLEAN : CaptureError(ign, 0, NoContext) /\ TrackerOnly /\ NoBurst
    \/ \E ign \in BOOLEAN : CaptureException(ign, 0, NoContext) /\ TrackerOnly /\ NoBurst
    \/ \E ign \in BOOLEAN, level \in SeverityLevels :
         CaptureMessage(ign, 0, level) /\ TrackerOnly /\ NoBurst
    \/ AddBreadcrumb /\ TrackerOnly /\ NoBurst
    \/ Flush /\ TrackerOnly /\ NoBurst
    \/ Shutdown /\ TrackerOnly /\ NoBurst
    \/ \E i \in 1..Len(flights) : \E r \in FlightResponses(flights[i]) :
         FlightRespond(i, r) /\ TrackerOnly /\ NoBurst
    \/ \E i \in 1..Len(flights) : FlightWake(i) /\ TrackerOnly /\ NoBurst
    \/ \E i \in 1..Len(flights) : ShutdownResume(i) /\ TrackerOnly /\ NoBurst

SpecLife == InitTracker /\ [][NextLife]_vars

(***************************************************************************)
(* C11: when shutdown() resolves the tracker is uninitialized, and it      *)
(* stays so until an init call; meanwhile captureError, captureException   *)
(* and captureMessage return '' and leave the queue as it is, addBreadcrumb *)
(* leaves the breadcrumbs as they are and flush starts no send.            *)
(***************************************************************************)
C11_UninitializedAfterShutdown ==
    [][/\ ShutdownResolved(last') => ~isInitialized'
       /\ (~isInitialized /\ isInitialized') => lifecycle' = "init"
       /\ (~isInitialized /\ last'.op = "capture") =>
            /\ last'.ret = 0
            /\ ~last'.threw
            /\ queue' = queue
       /\ (~isInitialized /\ last'.op = "crumb") => breadcrumbs' = breadcrumbs
       /\ (~isInitialized /\ last'.op = "flush") =>
            /\ flights' = flights
            /\ queue' = queue]_vars

\* after a shutdown whose final flush failed, a captureMessage call has
\* returned '' and the events the flush left are still queued
C11_Witness ==
    /\ lifecycle = "shutdown"
    /\ ~isInitialized
    /\ flights = <<>>
    /\ queue # <<>>
    /\ last.op = "capture"
    /\ last.api = "captureMessage"
    /\ last.ret = 0

(***************************************************************************)
(* C12: shutdown() never rejects: when its final flush is over, with a     *)
(* failure result or by throwing, shutdown resolves and the tracker is     *)
(* uninitialized, and what the flush threw has been passed to              *)
(* onTransportError if that callback is configured.                        *)
(***************************************************************************)
C12_ShutdownNeverRejects ==
    [][(last'.op = "complete" /\ last'.origin = "shutdown") =>
         /\ ~last'.rejected
         /\ ShutdownResolved(last')
         /\ ~isInitialized'
         /\ (last'.threw /\ config.onTransportError) => last'.notified]_vars

\* the final flush of a shutdown threw, the callback got the error and the
\* tracker is uninitialized
C12_Witness ==
    /\ last.op = "complete"
    /\ last.origin = "shutdown"
    /\ last.threw
    /\ last.notified
    /\ ~isInitialized

(***************************************************************************)
(* DeduplicationManager.  seen maps a fingerprint of an error either to   *)
(* its entry [count, firstSeen, lastSeen] or to Null when it has none.     *)
(***************************************************************************)
Fingerprints == {"a", "b"}

NewEntry(t) == [count |-> 1, firstSeen |-> t, lastSeen |-> t]

\* mutant of ShouldCapture: a call exactly windowMs after the first one is
\* taken to be outside the window
ShouldCaptureWindowExclusive(sn, fingerprint, t, w, c) ==
    LET existing == sn[fingerprint]
    IN  IF existing = Null
        THEN [seen |-> [sn EXCEPT ![fingerprint] = NewEntry(t)], ret |-> TRUE]
        ELSE IF t - existing.firstSeen >= w
        THEN [seen |-> [sn EXCEPT ![fingerprint] = NewEntry(t)], ret |-> TRUE]
        ELSE [seen |-> [sn EXCEPT ![fingerprint].count = existing.count + 1,
                                  ![fingerprint].lastSeen = t],
              ret |-> existing.count + 1 <= c]

\* shouldCapture(fingerprint) at time t: the map afterwards and the result
ShouldCapture(sn, fingerprint, t, w, c) ==
    LET existing == sn[fingerprint]
    IN  IF existing = Null
        THEN [seen |-> [sn EXCEPT ![fingerprint] = NewEntry(t)], ret |-> TRUE]
        ELSE IF t - existing.firstSeen > w
        THEN [seen |-> [sn EXCEPT ![fingerprint] = NewEntry(t)], ret |-> TRUE]
        ELSE [seen |-> [sn EXCEPT ![fingerprint].count = existing.count + 1,
                                  ![fingerprint].lastSeen = t],
              ret |-> existing.count + 1 <= c]

\* mutant of DedupPrune: an entry last seen exactly windowMs ago is deleted
DedupPruneInclusive(sn, t, w) ==
    [fp \in DOMAIN sn |->
        IF sn[fp] # Null /\ t - sn[fp].lastSeen >= w THEN Null ELSE sn[fp]]

\* prune() at time t
DedupPrune(sn, t, w) ==
    [fp \in DOMAIN sn |->
        IF sn[fp] # Null /\ t - sn[fp].lastSeen > w THEN Null ELSE sn[fp]]

(***************************************************************************)
(* SpecDedup: one DeduplicationManager.  windows follows, per fingerprint, *)
(* the window the calls define: it starts with the first call, or the      *)
(* first call after clear(), or the first call made more than windowMs     *)
(* after the start of the window before.                                   *)
(***************************************************************************)
\* new DeduplicationManager(windowMs, maxCount)
InitDedup ==
    /\ ls = Null
    /\ mem = Null
    /\ isAvailable = TRUE
    /\ queue = <<>>
    /\ maxSize = 1
    /\ now = 1
    /\ nextId = 1
    /\ added = <<>>
    /\ onlyAdds = FALSE
    /\ tx = TxIdle
    /\ txLog = <<>>
    /\ TrackerIdle
    /\ CrumbsIdle
    /\ AppIdle
    /\ SanitizerIdle
    /\ SessionIdle
    /\ FingerprintIdle
    /\ BackoffIdle
    /\ seen = [fp \in Fingerprints |-> Null]
    /\ windowMs \in 1..MaxDedupWindow
    /\ maxCount \in 1..MaxDedupCount
    /\ windows = [fp \in Fingerprints |-> Null]
    /\ dedupLast = [n |-> 0]
    /\ unpruned = [fp \in Fingerprints |-> Null]

\* shouldCapture(fingerprint)
DShouldCapture(fingerprint) ==
    /\ dedupLast.n < MaxDedupCalls
    /\ LET r == ShouldCapture(seen, fingerprint, now, windowMs, maxCount)
           win == windows[fingerprint]
           fresh == win = Null \/ now - win.first > windowMs
           index == IF fresh THEN 1 ELSE win.calls + 1
           twin == ShouldCapture(unpruned, fingerprint, now, windowMs, maxCount)
       IN  /\ seen' = r.seen
           /\ unpruned' = twin.seen
           /\ windows' = [windows EXCEPT ![fingerprint] =
                            [first |-> IF fresh THEN now ELSE win.first, calls |-> index]]
           /\ dedupLast' = [n |-> dedupLast.n + 1, fingerprint |-> fingerprint,
                            ret |-> r.ret, index |-> index, fresh |-> fresh,
                            elapsed |-> IF fresh THEN 0 ELSE now - win.first,
                            twin |-> twin.ret,
                            pruned |-> seen[fingerprint] = Null
                                         /\ unpruned[fingerprint] # Null]
    /\ UNCHANGED <<now, windowMs, maxCount>>

\* the setInterval callback of the constructor: prune()
DPrune ==
    /\ seen' = DedupPrune(seen, now, windowMs)
    /\ UNCHANGED <<now, windowMs, maxCount, windows, dedupLast, unpruned>>

\* clear()
DClear ==
    /\ seen' = [fp \in Fingerprints |-> Null]
    /\ windows' = [fp \in Fingerprints |-> Null]
    /\ unpruned' = [fp \in Fingerprints |-> Null]
    /\ UNCHANGED <<now, windowMs, maxCount, dedupLast>>

\* time passes
DAdvance ==
    /\ now < MaxDedupTime
    /\ now' = now + 1
    /\ UNCHANGED dedupVars

DedupOnly ==
    UNCHANGED <<storeVars, queueVars, nextId, queueHist, txVars, trackerVars,
                trackerHist, crumbVars, appVars, sanVars, sessionVars,
                fingerprintVars, backoffVars>>

NextDedup ==
    \/ \E fp \in Fingerprints : DShouldCapture(fp) /\ DedupOnly
    \/ DPrune /\ DedupOnly
    \/ DClear /\ DedupOnly
    \/ DAdvance /\ DedupOnly

SpecDedup == InitDedup /\ [][NextDedup]_vars

(***************************************************************************)
(* C22: for a fingerprint with maximum count c >= 1 and window w, the i-th *)
(* shouldCapture call of a window, made no later than w after the window's *)
(* first call, returns true exactly when i <= c; the first call made more  *)
(* than w after it returns true and starts a new window whose count is 1.  *)
(***************************************************************************)
C22_WindowedCount ==
    [][dedupLast'.n # dedupLast.n =>
         /\ dedupLast'.ret = (dedupLast'.index <= maxCount)
         /\ dedupLast'.fresh =>
              /\ dedupLast'.ret
              /\ seen'[dedupLast'.fingerprint] = NewEntry(now)]_vars

\* the call one past the maximum, made exactly w after the window's first
\* call, was refused
C22_Witness ==
    /\ dedupLast.n > 0
    /\ ~dedupLast.ret
    /\ dedupLast.index = maxCount + 1
    /\ dedupLast.elapsed = windowMs

(***************************************************************************)
(* Configuration (config/defaults.ts).  A partial configuration is a       *)
(* function from the fields it has to their values; a field that is        *)
(* present with the value undefined is in its domain.                      *)
(***************************************************************************)
PresetNames == {"development", "production", "minimal", "full"}

\* presets[name], the fields the tracker model reads
Presets(name) ==
    CASE name = "development" -> [k \in {"sampleRate"} |-> Prim(RateOne)]
      [] name = "production" -> [k \in {"sampleRate"} |-> Prim(RateOne)]
      [] name = "minimal" -> [k \in {"breadcrumbsEnabled", "captureState"} |-> FALSE]
      [] name = "full" -> [sampleRate |-> Prim(RateOne), breadcrumbsEnabled |-> TRUE,
                           captureState |-> TRUE]

\* a SimpleConfig: reading a property it lacks gives undefined
SimpleConfigs ==
    [enabled : {Undefined, Prim(TRUE), Prim(FALSE)},
     sampleRate : {Undefined, Prim(0), Prim(50), Prim(RateOne)},
     preset : {Undefined} \cup {Prim(n) : n \in PresetNames}]

\* { url } alone
UrlOnly == [enabled |-> Undefined, sampleRate |-> Undefined, preset |-> Undefined]

\* fromSimpleConfig(simple): endpoint, enabled and sampleRate are always
\* written, then the preset is spread over them
FromSimpleConfig(simple) ==
    Spread([hasEndpoint |-> TRUE, enabled |-> simple.enabled,
            sampleRate |-> simple.sampleRate],
           IF simple.preset = Undefined THEN <<>> ELSE Presets(simple.preset.v))

\* defaultConfig, at the scale of the model
DefaultConfig ==
    [sendOnErrorOnly |-> TRUE, maxQueueSize |-> MaxQueueSize, retryAttempts |-> MaxRetry,
     enabled |-> Prim(TRUE), hasEndpoint |-> FALSE, debounceMs |-> DebounceTicks,
     maxBreadcrumbs |-> MaxCrumbSize, breadcrumbRetentionMs |-> RETENTION_MS,
     breadcrumbsEnabled |-> TRUE, sampleRate |-> Prim(RateOne), captureState |-> TRUE,
     getUserId |-> "none", onTransportError |-> FALSE]

\* mergeConfig(userConfig): { ...defaultConfig, ...userConfig }
MergeConfig(userConfig) == Spread(DefaultConfig, userConfig)

(***************************************************************************)
(* SpecSimple: a tracker initialized from a SimpleConfig, then capturing.  *)
(***************************************************************************)
\* init(fromSimpleConfig(simple)) on an uninitialized tracker
SimpleInit(simple) == CInit(MergeConfig(FromSimpleConfig(simple)))

NextSimple ==
    \/ \E simple \in SimpleConfigs : SimpleInit(simple) /\ TrackerOnly /\ NoBurst
    \/ \E ign \in BOOLEAN, rnd \in Randoms :
         CaptureError(ign, rnd, NoContext) /\ TrackerOnly /\ NoBurst
    \/ \E ign \in BOOLEAN, rnd \in Randoms, level \in SeverityLevels :
         CaptureMessage(ign, rnd, level) /\ TrackerOnly /\ NoBurst
    \/ AddBreadcrumb /\ TrackerOnly /\ NoBurst

SpecSimple == InitTracker /\ [][NextSimple]_vars

(***************************************************************************)
(* C24: a field the user configuration does not supply, or supplies as     *)
(* undefined, has its default after mergeConfig: a tracker initialized     *)
(* from a SimpleConfig without enabled has enabled = true, one without     *)
(* sampleRate has sampleRate = 1.0, and on a tracker initialized from      *)
(* { url } alone captureError of an error that is not ignored returns a    *)
(* non-empty id.                                                           *)
(***************************************************************************)
C24_UndefinedFieldsDefaulted ==
    [][/\ \A simple \in SimpleConfigs :
            SimpleInit(simple) =>
              /\ simple.enabled = Undefined => config'.enabled = Prim(TRUE)
              /\ simple.sampleRate = Undefined => config'.sampleRate = Prim(RateOne)
       /\ (/\ last'.op = "capture"
           /\ last'.api = "captureError"
           /\ isInitialized
           /\ config = MergeConfig(FromSimpleConfig(UrlOnly))
           /\ ~last'.ign) => last'.ret # 0]_vars

(***************************************************************************)
(* SpecMessage: one initialized tracker, in either delivery mode, that     *)
(* captures messages of every level and errors while its timers run and    *)
(* the collector answers.                                                  *)
(***************************************************************************)
MessageConfigs ==
    ConfigsWith(BOOLEAN, {MaxQueueSize}, {TRUE}, {RateOne}, {TRUE}, {"none"}, {TRUE})

LowLevels == {"debug", "info", "warning"}

NextMessage ==
    \/ \E cfg \in MessageConfigs : CInit(cfg) /\ TrackerOnly /\ NoBurst
    \/ \E ign \in BOOLEAN, level \in SeverityLevels :
         CaptureMessage(ign, 0, level) /\ TrackerOnly /\ NoBurst
    \/ CaptureError(FALSE, 0, NoContext) /\ TrackerOnly /\ NoBurst
    \/ Flush /\ TrackerOnly /\ NoBurst
    \/ PeriodicFire /\ TrackerOnly /\ NoBurst
    \/ \E j \in 1..Len(timeouts) : DebounceFire(j) /\ TrackerOnly /\ NoBurst
    \/ Tick /\ TrackerOnly /\ NoBurst
    \/ \E i \in 1..Len(flights) : \E r \in FlightResponses(flights[i]) :
         FlightRespond(i, r) /\ TrackerOnly /\ NoBurst
    \/ \E i \in 1..Len(flights) : FlightWake(i) /\ TrackerOnly /\ NoBurst

SpecMessage == InitTracker /\ [][NextMessage]_vars

(***************************************************************************)
(* C25: in send-on-error-only mode a captureMessage of level error or      *)
(* fatal arms the debounced send, while one of level debug, info or        *)
(* warning puts its event in the queue, leaves every timer as it is and    *)
(* starts no send; a send then starts only when the debounce timer of an   *)
(* error fires or flush() is called.                                       *)
(***************************************************************************)
C25_LowLevelsWaitForFlush ==
    [][(isInitialized /\ config.sendOnErrorOnly) =>
         /\ \A ign \in BOOLEAN, level \in LowLevels :
              (CaptureMessage(ign, 0, level) /\ last'.ret # 0) =>
                /\ last'.ret \in Ids(queue')
                /\ sendDebounceTimer' = sendDebounceTimer
                /\ timeouts' = timeouts
                /\ flights' = flights
         /\ \A ign \in BOOLEAN, level \in SeverityLevels \ LowLevels :
              (CaptureMessage(ign, 0, level) /\ last'.ret # 0) =>
                /\ last'.ret \in Ids(queue')
                /\ sendDebounceTimer' = "pending"
                /\ timeouts' # <<>>
                /\ timeouts'[Len(timeouts')] = 0
         /\ Len(flights') > Len(flights) =>
              (Flush \/ \E j \in 1..Len(timeouts) : DebounceFire(j))]_vars

\* a message was queued while the debounce timer of an earlier error had
\* been running for a while, and the timer was not restarted
C25_Witness ==
    /\ isInitialized
    /\ config.sendOnErrorOnly
    /\ last.op = "capture"
    /\ last.api = "captureMessage"
    /\ last.ret \in Ids(queue)
    /\ Len(queue) = 2
    /\ sendDebounceTimer = "pending"
    /\ timeouts # <<>>
    /\ timeouts[Len(timeouts)] > 0

(***************************************************************************)
(* C26: whenever the tracker is initialized, in send-on-error-only mode no *)
(* periodic flush timer exists, and in periodic mode no capture call       *)
(* changes the debounce timer.                                             *)
(***************************************************************************)
C26_ModesExclusive ==
    [][/\ (isInitialized' /\ config'.sendOnErrorOnly) =>
            (~flushIntervalId' /\ ~leakedInterval')
       /\ (isInitialized /\ ~config.sendOnErrorOnly /\ last'.op = "capture") =>
            /\ sendDebounceTimer' = sendDebounceTimer
            /\ timeouts' = timeouts]_vars

(***************************************************************************)
(* C27: a queue constructed over a persisted array of N events, K of them  *)
(* of an age of 7 days or more, holds exactly the N-K younger events in    *)
(* their stored order, and when K > 0 the value then read from the store   *)
(* is the array of those N-K events.                                       *)
(***************************************************************************)
Younger(events, t) == SelectSeq(events, LAMBDA e : ~(t - e.timestamp >= MAX_AGE_MS))

C27_RestoreDropsExpired ==
    [][\A m \in MaxSizes, wok \in BOOLEAN :
         QConstruct(m, wok) =>
           LET data == GetItem(Store)
           IN  IF data = Null THEN TRUE
               ELSE IF data.kind # "array" THEN TRUE
               ELSE /\ queue' = Younger(data.events, now)
                    /\ Len(queue') < Len(data.events) =>
                         GetItem([ls |-> ls', mem |-> mem',
                                  isAvailable |-> isAvailable']) = Stringify(queue')]_vars

\* the same, for the restores whose write to localStorage succeeds
C27_RestoreDropsExpiredWhenWritten ==
    [][\A m \in MaxSizes :
         QConstruct(m, TRUE) =>
           LET data == GetItem(Store)
           IN  IF data = Null THEN TRUE
               ELSE IF data.kind # "array" THEN TRUE
               ELSE /\ queue' = Younger(data.events, now)
                    /\ Len(queue') < Len(data.events) =>
                         GetItem([ls |-> ls', mem |-> mem',
                                  isAvailable |-> isAvailable']) = Stringify(queue')]_vars

(***************************************************************************)
(* C28: once setUser(info) was called, the user of every event built       *)
(* afterwards holds the fields of info; its id is info.id when info has    *)
(* one, and what the configured getUserId returns when info has none.      *)
(***************************************************************************)
C28_UserInfoInEveryEvent ==
    [][(last'.op = "capture" /\ last'.ret # 0 /\ userInfo # Null) =>
         LET user == FieldsOf(queue'[Len(queue')].user)
         IN  /\ queue'[Len(queue')].event_id = last'.ret
             /\ \A k \in DOMAIN userInfo.fields :
                  k \in DOMAIN user /\ user[k] = userInfo.fields[k]
             /\ ("id" \notin DOMAIN userInfo.fields /\ config.getUserId = "returns") =>
                  user["id"] = Prim("from-callback")]_vars

\* the same, for the events built while a user id is known
C28_UserInfoInEventWithId ==
    [][(last'.op = "capture" /\ last'.ret # 0 /\ userInfo # Null
          /\ UserId(config) # "") =>
         LET user == FieldsOf(queue'[Len(queue')].user)
         IN  /\ queue'[Len(queue')].event_id = last'.ret
             /\ \A k \in DOMAIN userInfo.fields :
                  k \in DOMAIN user /\ user[k] = userInfo.fields[k]
             /\ ("id" \notin DOMAIN userInfo.fields /\ config.getUserId = "returns") =>
                  user["id"] = Prim("from-callback")]_vars

(***************************************************************************)
(* SessionManager.  A session is [sessionId, lastActiveAt, isNew]; the     *)
(* counters and startedAt play no part in which id is handed out and are   *)
(* left out.  The stored value is the session without isNew.               *)
(***************************************************************************)
SESSION_TIMEOUT_MS == 30 * 60 * 1000
ACTIVITY_THROTTLE_MS == 60000
SAVE_DEBOUNCE_MS == 5000

\* saveSession(): what is written under SESSION_KEY
SaveSession(sess, stored) ==
    IF sess = Null THEN stored
    ELSE [sessionId |-> sess.sessionId, lastActiveAt |-> sess.lastActiveAt]

\* initSession() at time t, id being what generateUUID() would give: the
\* session it leaves in this.session
InitSession(stored, t, id) ==
    IF stored # Null /\ t - stored.lastActiveAt < SESSION_TIMEOUT_MS
    THEN [sessionId |-> stored.sessionId, lastActiveAt |-> t, isNew |-> FALSE]
    ELSE [sessionId |-> id, lastActiveAt |-> t, isNew |-> TRUE]

\* the instants the timeout, the throttle and the debounce tell apart
SessionTimes ==
    {1, ACTIVITY_THROTTLE_MS + 2, ACTIVITY_THROTTLE_MS + 3,
     ACTIVITY_THROTTLE_MS + 3 + SAVE_DEBOUNCE_MS,
     SESSION_TIMEOUT_MS + 1, SESSION_TIMEOUT_MS + 2,
     SESSION_TIMEOUT_MS + ACTIVITY_THROTTLE_MS + 2,
     SESSION_TIMEOUT_MS + ACTIVITY_THROTTLE_MS + 3}

\* the debounced save is due: its callback runs before anything else does
SaveDue == saveDebounceId # 0 /\ now >= saveDebounceId

\* initSession() as a step: this.session, the store, the id counter, and the
\* history when a new id was minted
RunInitSession ==
    LET sess == InitSession(sessionStored, now, nextSession)
    IN  /\ sess.isNew => nextSession <= MaxSessions
        /\ session' = sess
        /\ sessionStored' = SaveSession(sess, sessionStored)
        /\ nextSession' = IF sess.isNew THEN nextSession + 1 ELSE nextSession

(***************************************************************************)
(* SpecSession: one SessionManager and the page loads that replace it.     *)
(* sessionHist.activeAt is the time of the last recorded activity (the     *)
(* start of a session, touch(), recordError()), activeId the id of the     *)
(* session then, ret the id the last getSessionId() returned.              *)
(***************************************************************************)
\* new SessionManager() at the first page load, over an empty store
InitSessions ==
    /\ ls = Null
    /\ mem = Null
    /\ isAvailable = TRUE
    /\ queue = <<>>
    /\ maxSize = 1
    /\ now = 1
    /\ nextId = 1
    /\ added = <<>>
    /\ onlyAdds = FALSE
    /\ tx = TxIdle
    /\ txLog = <<>>
    /\ TrackerIdle
    /\ CrumbsIdle
    /\ AppIdle
    /\ SanitizerIdle
    /\ DedupIdle
    /\ FingerprintIdle
    /\ BackoffIdle
    /\ session = InitSession(Null, 1, 1)
    /\ sessionStored = SaveSession(session, Null)
    /\ lastActivityUpdate = 0
    /\ saveDebounceId = 0
    /\ nextSession = 2
    /\ sessionHist = [activeAt |-> 1, activeId |-> 1, ret |-> 0]

\* getSessionId()
SGetSessionId ==
    /\ ~SaveDue
    /\ IF session = Null
       THEN /\ RunInitSession
            /\ sessionHist' = [activeAt |-> now, activeId |-> session'.sessionId,
                               ret |-> session'.sessionId]
       ELSE /\ UNCHANGED <<session, sessionStored, nextSession>>
            /\ sessionHist' = [sessionHist EXCEPT !.ret = session.sessionId]
    /\ UNCHANGED <<now, lastActivityUpdate, saveDebounceId>>

\* touch(), and recordPageView() and recordError() on a live session:
\* updateActivity()
STouch ==
    /\ ~SaveDue
    /\ session # Null
    /\ session' = [session EXCEPT !.lastActiveAt = now]
    /\ IF now - lastActivityUpdate > ACTIVITY_THROTTLE_MS
       THEN /\ lastActivityUpdate' = now
            /\ sessionStored' = SaveSession(session', sessionStored)
            /\ UNCHANGED saveDebounceId
       ELSE /\ saveDebounceId' = now + SAVE_DEBOUNCE_MS
            /\ UNCHANGED <<lastActivityUpdate, sessionStored>>
    /\ sessionHist' = [sessionHist EXCEPT !.activeAt = now,
                                          !.activeId = session.sessionId]
    /\ UNCHANGED <<now, nextSession>>

\* the callback of the debounced save
SSaveFire ==
    /\ SaveDue
    /\ sessionStored' = SaveSession(session, sessionStored)
    /\ saveDebounceId' = 0
    /\ UNCHANGED <<now, session, lastActivityUpdate, nextSession, sessionHist>>

\* endSession()
SEndSession ==
    /\ ~SaveDue
    /\ session # Null
    /\ session' = Null
    /\ sessionStored' = Null
    /\ sessionHist' = [activeAt |-> now, activeId |-> 0, ret |-> sessionHist.ret]
    /\ UNCHANGED <<now, lastActivityUpdate, saveDebounceId, nextSession>>

\* the page is closed and loaded again: new SessionManager() over the store,
\* the pending timer of the old page gone
SReload ==
    /\ ~SaveDue
    /\ RunInitSession
    /\ lastActivityUpdate' = 0
    /\ saveDebounceId' = 0
    /\ sessionHist' = IF session'.isNew
                      THEN [sessionHist EXCEPT !.activeAt = now,
                                               !.activeId = session'.sessionId]
                      ELSE sessionHist
    /\ UNCHANGED now

\* time passes
SAdvance ==
    /\ ~SaveDue
    /\ \E t \in SessionTimes : t > now /\ now' = t
    /\ UNCHANGED sessionVars

SessionOnly ==
    UNCHANGED <<storeVars, queueVars, nextId, queueHist, txVars, trackerVars,
                trackerHist, crumbVars, appVars, sanVars, dedupVars,
                fingerprintVars, backoffVars>>

NextSession ==
    \/ SGetSessionId /\ SessionOnly
    \/ STouch /\ SessionOnly
    \/ SSaveFire /\ SessionOnly
    \/ SEndSession /\ SessionOnly
    \/ SReload /\ SessionOnly
    \/ SAdvance /\ SessionOnly

SpecSession == InitSessions /\ [][NextSession]_vars

(***************************************************************************)
(* C29: a getSessionId() call made more than 30 minutes after the last     *)
(* recorded activity returns an id different from the one of the session   *)
(* that activity belonged to, and a call made less than 30 minutes after   *)
(* it returns the same id.                                                 *)
(***************************************************************************)
C29_NewIdAfterTimeout ==
    [][(SGetSessionId /\ sessionHist.activeId # 0) =>
         /\ now - sessionHist.activeAt > SESSION_TIMEOUT_MS =>
              sessionHist'.ret # sessionHist.activeId
         /\ now - sessionHist.activeAt < SESSION_TIMEOUT_MS =>
              sessionHist'.ret = sessionHist.activeId]_vars

\* the second half alone
C29_SameIdWithinTimeout ==
    [][(SGetSessionId /\ sessionHist.activeId # 0) =>
         (now - sessionHist.activeAt < SESSION_TIMEOUT_MS =>
            sessionHist'.ret = sessionHist.activeId)]_vars

(***************************************************************************)
(* Fingerprints.  A string is the sequence of its characters.  Messages    *)
(* are written with the characters of MessageChars.                        *)
(***************************************************************************)
MessageChars == {"1", "2", "e", " ", ".", "-"}

Digits == {"1", "2"}

\* [0-9a-f] with the i flag, and \w, among the characters that occur
IsHex(c) == c \in {"1", "2", "e"}
IsWord(c) == c \in {"1", "2", "e", "U", "I", "D", "N", "M"}

CharCode ==
    ("1" :> 49) @@ ("2" :> 50) @@ ("e" :> 101) @@ (" " :> 32) @@ ("." :> 46) @@
    ("-" :> 45) @@ ("<" :> 60) @@ (">" :> 62) @@ ("U" :> 85) @@ ("I" :> 73) @@
    ("D" :> 68) @@ ("N" :> 78) @@ ("M" :> 77) @@ ("|" :> 124) @@ (":" :> 58) @@
    ("E" :> 69) @@ ("r" :> 114) @@ ("o" :> 111)

HexChars == <<"0", "1", "2", "3", "4", "5", "6", "7", "8", "9",
              "a", "b", "c", "d", "e", "f">>

\* /[0-9a-f]{8}-[0-9a-f]{4}-[0-9a-f]{4}-[0-9a-f]{4}-[0-9a-f]{12}/ matches at i
UuidAt(str, i) ==
    /\ i + 35 <= Len(str)
    /\ \A k \in 0..35 :
         IF k \in {8, 13, 18, 23} THEN str[i + k] = "-" ELSE IsHex(str[i + k])

RECURSIVE ReplaceUuidFrom(_, _)
ReplaceUuidFrom(str, i) ==
    IF i > Len(str) THEN <<>>
    ELSE IF UuidAt(str, i)
    THEN <<"<", "U", "U", "I", "D", ">">> \o ReplaceUuidFrom(str, i + 36)
    ELSE <<str[i]>> \o ReplaceUuidFrom(str, i + 1)

\* .replace(<the UUID pattern>/gi, '<UUID>')
ReplaceUuid(str) == ReplaceUuidFrom(str, 1)

\* the end of the run of digits that starts at i
RECURSIVE DigitsEnd(_, _)
DigitsEnd(str, i) ==
    IF i < Len(str) /\ str[i + 1] \in Digits THEN DigitsEnd(str, i + 1) ELSE i

\* /\b\d+\b/ matches at i: a whole run of digits with no word character
\* next to it on either side
NumAt(str, i) ==
    /\ str[i] \in Digits
    /\ i = 1 \/ ~IsWord(str[i - 1])
    /\ LET j == DigitsEnd(str, i) IN j = Len(str) \/ ~IsWord(str[j + 1])

RECURSIVE ReplaceNumFrom(_, _)
ReplaceNumFrom(str, i) ==
    IF i > Len(str) THEN <<>>
    ELSE IF NumAt(str, i)
    THEN <<"<", "N", "U", "M", ">">> \o ReplaceNumFrom(str, DigitsEnd(str, i) + 1)
    ELSE <<str[i]>> \o ReplaceNumFrom(str, i + 1)

\* .replace(/\b\d+\b/g, '<NUM>')
ReplaceNum(str) == ReplaceNumFrom(str, 1)

\* .replace(/\s+/g, ' ')
RECURSIVE CollapseFrom(_, _)
CollapseFrom(str, i) ==
    IF i > Len(str) THEN <<>>
    ELSE IF str[i] = " " /\ i > 1 /\ str[i - 1] = " " THEN CollapseFrom(str, i + 1)
    ELSE <<str[i]>> \o CollapseFrom(str, i + 1)

\* .trim(), of a string whose whitespace is single spaces
Trim(str) ==
    LET from == IF str # <<>> /\ str[1] = " " THEN 2 ELSE 1
        to == IF str # <<>> /\ str[Len(str)] = " " THEN Len(str) - 1 ELSE Len(str)
    IN  SubSeq(str, from, to)

\* normalizeMessage(message).  The URL, file path, timestamp and address
\* patterns each need a character ('/', ':' or 'x') that MessageChars and
\* the two markers lack, so those four replacements leave the string as
\* it is
NormalizeMessage(message) ==
    Trim(CollapseFrom(ReplaceNum(ReplaceUuid(message)), 1))

\* a ^ b for 0 <= a, b < 2^16
RECURSIVE Xor(_, _)
Xor(a, b) ==
    IF a = 0 THEN b
    ELSE IF b = 0 THEN a
    ELSE ((a + b) % 2) + 2 * Xor(a \div 2, b \div 2)

\* hash = (hash * 33) ^ code on 32 bits, the hash held as two 16-bit halves
HashStep(hash, code) ==
    LET low == hash.lo * 33
    IN  [hi |-> (hash.hi * 33 + low \div 65536) % 65536,
         lo |-> Xor(low % 65536, code)]

RECURSIVE HashFrom(_, _, _)
HashFrom(str, i, hash) ==
    IF i > Len(str) THEN hash
    ELSE HashFrom(str, i + 1, HashStep(hash, CharCode[str[i]]))

\* v.toString(16).padStart(4, '0') for 0 <= v < 2^16
Hex4(v) == [i \in 1..4 |-> HexChars[((v \div (16 ^ (4 - i))) % 16) + 1]]

\* hashString(str): djb2, (hash >>> 0).toString(16).padStart(8, '0')
HashString(str) ==
    LET hash == HashFrom(str, 1, [hi |-> 0, lo |-> 5381])
    IN  Hex4(hash.hi) \o Hex4(hash.lo)

\* parts.join('|')
RECURSIVE Join(_)
Join(parts) ==
    IF parts = <<>> THEN <<>>
    ELSE IF Len(parts) = 1 THEN parts[1]
    ELSE parts[1] \o <<"|">> \o Join(Tail(parts))

\* generateFingerprint(error, event) with no config: the name, the
\* normalized message and, if the stack has one, the first meaningful frame
GenerateFingerprint(error) ==
    HashString(Join(<<IF error.name = <<>> THEN <<"E", "r", "r", "o", "r">>
                      ELSE error.name,
                      NormalizeMessage(error.message)>>
                    \o (IF error.frame = <<>> THEN <<>> ELSE <<error.frame>>)))

(***************************************************************************)
(* SpecFingerprint: two errors with the same name and the same first       *)
(* stack frame, whose messages are one text around two different numbers   *)
(* or around two different UUIDs.                                          *)
(***************************************************************************)
Uuid(c) ==
    [i \in 1..36 |-> IF i \in {9, 14, 19, 24} THEN "-" ELSE c]

Numbers == {<<"1">>, <<"2">>, <<"2", "1">>, <<"1", ".", "2">>}
Uuids == {Uuid("1"), Uuid("e")}

MessagePrefixes == {<<>>, <<"e">>, <<"e", " ">>, <<"e", " ", " ">>, <<"-">>}
MessageSuffixes == {<<>>, <<"e">>, <<" ", "e">>, <<".">>, <<" ">>}
Names == {<<>>, <<"E">>}
Frames == {<<>>, <<"e", ":", "1", ":", "1">>}

InitFingerprint ==
    /\ ls = Null
    /\ mem = Null
    /\ isAvailable = TRUE
    /\ queue = <<>>
    /\ maxSize = 1
    /\ now = 1
    /\ nextId = 1
    /\ added = <<>>
    /\ onlyAdds = FALSE
    /\ tx = TxIdle
    /\ txLog = <<>>
    /\ TrackerIdle
    /\ CrumbsIdle
    /\ AppIdle
    /\ SanitizerIdle
    /\ DedupIdle
    /\ SessionIdle
    /\ BackoffIdle
    /\ \E name \in Names, frame \in Frames, pre \in MessagePrefixes,
          post \in MessageSuffixes, kind \in {Numbers, Uuids} :
         \E x \in kind, y \in kind :
            /\ x # y
            /\ errors = [kind |-> IF kind = Uuids THEN "uuid" ELSE "number",
                         pre |-> pre, post |-> post, x |-> x, y |-> y,
                         a |-> [name |-> name, frame |-> frame,
                                message |-> pre \o x \o post],
                         b |-> [name |-> name, frame |-> frame,
                                message |-> pre \o y \o post]]
    /\ fingerprints = Null

\* generateFingerprint(a, eventA) and generateFingerprint(b, eventB)
FGenerate ==
    /\ fingerprints = Null
    /\ fingerprints' = [a |-> GenerateFingerprint(errors.a),
                        b |-> GenerateFingerprint(errors.b)]
    /\ UNCHANGED errors

FingerprintOnly ==
    UNCHANGED <<storeVars, queueVars, now, nextId, queueHist, txVars, trackerVars,
                trackerHist, crumbVars, appVars, sanVars, dedupVars, sessionVars,
                backoffVars>>

NextFingerprint ==
    \/ FGenerate /\ FingerprintOnly

SpecFingerprint == InitFingerprint /\ [][NextFingerprint]_vars

(***************************************************************************)
(* C30: two errors with the same name and the same stack frame whose       *)
(* messages differ only in an embedded number, or only in an embedded      *)
(* UUID, get the same fingerprint.                                         *)
(***************************************************************************)
C30_SameFingerprint ==
    fingerprints # Null => fingerprints.a = fingerprints.b

\* the same, for UUIDs and for whole numbers that no letter, digit or
\* underscore touches
Delimited ==
    /\ errors.kind = "number"
    /\ \A i \in 1..Len(errors.x) : errors.x[i] \in Digits
    /\ \A i \in 1..Len(errors.y) : errors.y[i] \in Digits
    /\ errors.pre = <<>> \/ ~IsWord(errors.pre[Len(errors.pre)])
    /\ errors.post = <<>> \/ ~IsWord(errors.post[1])

C30_SameFingerprintWhenDelimited ==
    (fingerprints # Null /\ (errors.kind = "uuid" \/ Delimited)) =>
        fingerprints.a = fingerprints.b

(***************************************************************************)
(* C31: after add, remove, clear or flush returns, a queue constructed     *)
(* right afterwards over the same store, all events being younger than 7   *)
(* days, restores exactly the events of the in-memory queue in the same    *)
(* order, also when the write to localStorage failed.                      *)
(***************************************************************************)
StoreAfter == [ls |-> ls', mem |-> mem', isAvailable |-> isAvailable']

AllYoung(q, t) == \A i \in 1..Len(q) : t - q[i].timestamp < MAX_AGE_MS

C31_PersistedEqualsQueue ==
    [][\A wok \in BOOLEAN :
         (\/ QAdd(wok)
          \/ \E ids \in SUBSET (1..MaxEvents) : QRemove(ids, wok)
          \/ QClear(wok)
          \/ QFlush(wok))
         /\ AllYoung(queue', now')
         => \A w2 \in BOOLEAN : Restore(StoreAfter, now', w2).queue = queue']_vars

\* the same, for the mutations whose write to localStorage succeeds
C31_PersistedEqualsQueueWhenWritten ==
    [][(\/ QAdd(TRUE)
        \/ \E ids \in SUBSET (1..MaxEvents) : QRemove(ids, TRUE)
        \/ QClear(TRUE)
        \/ QFlush(TRUE))
       /\ AllYoung(queue', now')
       => \A w2 \in BOOLEAN : Restore(StoreAfter, now', w2).queue = queue']_vars

(***************************************************************************)
(* C32: when the write of persist() fails on an available localStorage     *)
(* (quota exceeded), the queue evicts its oldest entry and retries until   *)
(* a write succeeds or the queue is empty: the queue left by add() is a    *)
(* proper suffix of the pushed queue, and either the store holds it or     *)
(* the queue is empty and the persisted key is removed.                    *)
(***************************************************************************)
IsProperSuffix(s, q) ==
    /\ Len(s) < Len(q)
    /\ s = SubSeq(q, Len(q) - Len(s) + 1, Len(q))

C32_QuotaEvictsOldest ==
    [][isAvailable /\ QAdd(FALSE) =>
         /\ IsProperSuffix(queue', QueuePush(queue, NewEvent, maxSize))
         /\ \/ GetItem(StoreAfter) = Stringify(queue')
            \/ queue' = <<>> /\ GetItem(StoreAfter) = Null]_vars

\* what add() does when the write fails: nothing is evicted, the value read
\* from the store is the one from before
C32_QuotaKeepsQueue ==
    [][isAvailable /\ QAdd(FALSE) =>
         /\ queue' = QueuePush(queue, NewEvent, maxSize)
         /\ GetItem(StoreAfter) = GetItem(Store)]_vars

(***************************************************************************)
(* C33: constructing an ErrorQueue over a stored value that is not         *)
(* parseable or is not an array does not throw, leaves the queue empty     *)
(* and removes the stored value from the store.  (Restore has no throwing  *)
(* outcome: every exception of restore() is caught inside it.)             *)
(***************************************************************************)
Unusable(data) == data # Null /\ data.kind # "array"

C33_CorruptValueRemoved ==
    [][\A m \in MaxSizes, wok \in BOOLEAN :
         QConstruct(m, wok) /\ Unusable(GetItem(Store)) =>
           /\ queue' = <<>>
           /\ GetItem(StoreAfter) = Null]_vars

\* the same, for the stored values that are not the empty string
C33_NonEmptyCorruptValueRemoved ==
    [][\A m \in MaxSizes, wok \in BOOLEAN :
         QConstruct(m, wok) /\ Unusable(GetItem(Store))
                            /\ GetItem(Store).kind # "empty" =>
           /\ queue' = <<>>
           /\ GetItem(StoreAfter) = Null]_vars

(***************************************************************************)
(* The delay between two attempts of Transport.send (part_011 90-104,      *)
(* 137-141).  Math.random() is given in thousandths; a header value is a   *)
(* sequence of one-character strings, and headers.get('Retry-After') is    *)
(* [present |-> FALSE] when the response has no such header.               *)
(***************************************************************************)
BASE_DELAY_MS == 1000
MAX_DELAY_MS == 30000

MaxBackoffAttempts == 6

RECURSIVE Pow2(_)
Pow2(n) == IF n = 0 THEN 1 ELSE 2 * Pow2(n - 1)

\* mutant of CalculateBackoffDelay: the cap is applied before the jitter is added
CalculateBackoffDelayCapsFirst(attempt, rnd) ==
    LET exponentialDelay == BASE_DELAY_MS * Pow2(attempt)
    IN  Min(exponentialDelay, MAX_DELAY_MS) + (rnd * 3 * exponentialDelay) \div 10000

\* calculateBackoffDelay(attempt) with Math.random() = rnd / 1000; the
\* exponential delay is an integer, so the floor of the sum is the sum of
\* the delay and the floor of the jitter
CalculateBackoffDelay(attempt, rnd) ==
    LET exponentialDelay == BASE_DELAY_MS * Pow2(attempt)
        jitter == (rnd * 3 * exponentialDelay) \div 10000
    IN  Min(exponentialDelay + jitter, MAX_DELAY_MS)

DecimalDigits == <<"0", "1", "2", "3", "4", "5", "6", "7", "8", "9">>

IsDecimalDigit(c) == \E d \in 1..10 : DecimalDigits[d] = c

DigitValue(c) == (CHOOSE d \in 1..10 : DecimalDigits[d] = c) - 1

\* String(n) for a non-negative integer
RECURSIVE Decimal(_)
Decimal(n) ==
    IF n < 10 THEN <<DecimalDigits[n + 1]>>
    ELSE Append(Decimal(n \div 10), DecimalDigits[(n % 10) + 1])

\* the value of the longest run of digits of str from position i on, given
\* the value acc of the digits read so far
RECURSIVE ParseDigits(_, _, _)
ParseDigits(str, i, acc) ==
    IF i > Len(str) \/ ~IsDecimalDigit(str[i]) THEN acc
    ELSE ParseDigits(str, i + 1, 10 * acc + DigitValue(str[i]))

\* parseInt(str, 10): leading blanks, an optional sign, then digits up to the
\* first other character; NaN when there is no digit
RECURSIVE ParseInt(_)
ParseInt(str) ==
    IF str = <<>> THEN [nan |-> TRUE, n |-> 0]
    ELSE IF Head(str) = " " THEN ParseInt(Tail(str))
    ELSE LET signed == Head(str) \in {"-", "+"}
             digits == IF signed THEN Tail(str) ELSE str
             value == ParseDigits(digits, 1, 0)
         IN  IF digits = <<>> \/ ~IsDecimalDigit(Head(digits))
             THEN [nan |-> TRUE, n |-> 0]
             ELSE [nan |-> FALSE,
                   n |-> IF Head(str) = "-" THEN 0 - value ELSE value]

\* mutant of RetryDelay: the header can only lengthen the computed delay
RetryDelayKeepsLonger(computed, retryAfter) ==
    IF retryAfter.present /\ retryAfter.text # <<>>
    THEN LET retryAfterSeconds == ParseInt(retryAfter.text)
         IN  IF ~retryAfterSeconds.nan
             THEN Min(IF retryAfterSeconds.n * 1000 > computed
                      THEN retryAfterSeconds.n * 1000 ELSE computed, MAX_DELAY_MS)
             ELSE computed
    ELSE computed

\* send, lines 90-98: the delay after a retryable response, given the
\* computed backoff delay and the Retry-After header
RetryDelay(computed, retryAfter) ==
    IF retryAfter.present /\ retryAfter.text # <<>>
    THEN LET retryAfterSeconds == ParseInt(retryAfter.text)
         IN  IF ~retryAfterSeconds.nan
             THEN Min(retryAfterSeconds.n * 1000, MAX_DELAY_MS)
             ELSE computed
    ELSE computed

JitterRandoms == {0, 500, 999}

RetrySeconds == {0, 5, 30, 31}

NoHeader == [present |-> FALSE, text |-> <<>>]

Header(text) == [present |-> TRUE, text |-> text]

RetryAfterHeaders ==
    {NoHeader, Header(<<>>), Header(<<"x">>), Header(<<"1", ".", "5">>),
     Header(<<"-", "3">>), Header(<<" ", "7">>)}
    \cup {Header(Decimal(r)) : r \in RetrySeconds}

RetryableStatuses == {s \in {429, 503} : ~ResponseOk(s) /\ IsRetryableError(s)}

\* a send call with a non-empty batch enters its loop
InitBackoff ==
    /\ isAvailable = TRUE
    /\ ls = Null
    /\ mem = Null
    /\ queue = <<>>
    /\ maxSize = 1
    /\ now = 1
    /\ nextId = 1
    /\ added = <<>>
    /\ onlyAdds = FALSE
    /\ tx = TxIdle
    /\ txLog = <<>>
    /\ TrackerIdle
    /\ CrumbsIdle
    /\ AppIdle
    /\ SanitizerIdle
    /\ DedupIdle
    /\ SessionIdle
    /\ FingerprintIdle
    /\ \E n \in 1..MaxBackoffAttempts :
         backoff = [maxAttempts |-> n, attempt |-> 0, computed |-> <<>>,
                    cur |-> [source |-> "none"]]

\* one pass through the loop body ending in a retryable response
BRetryableResponse(status, retryAfter, rnd) ==
    /\ backoff.attempt < backoff.maxAttempts
    /\ LET computed == CalculateBackoffDelay(backoff.attempt, rnd)
           delay == RetryDelay(computed, retryAfter)
       IN  backoff' = [backoff EXCEPT
                         !.attempt = @ + 1,
                         !.computed = Append(@, computed),
                         !.cur = [source |-> "response", status |-> status,
                                  attempt |-> backoff.attempt,
                                  retryAfter |-> retryAfter, computed |-> computed,
                                  delay |-> delay,
                                  slept |-> backoff.attempt < backoff.maxAttempts - 1]]

\* one pass through the loop body ending in the catch block
BNetworkError(rnd) ==
    /\ backoff.attempt < backoff.maxAttempts
    /\ LET slept == backoff.attempt < backoff.maxAttempts - 1
           computed == CalculateBackoffDelay(backoff.attempt, rnd)
       IN  backoff' = [backoff EXCEPT
                         !.attempt = @ + 1,
                         !.computed = IF slept THEN Append(@, computed) ELSE @,
                         !.cur = IF slept
                                 THEN [source |-> "catch", attempt |-> backoff.attempt,
                                       computed |-> computed, delay |-> computed,
                                       slept |-> TRUE]
                                 ELSE [source |-> "catch", attempt |-> backoff.attempt,
                                       slept |-> FALSE]]

BackoffOnly ==
    UNCHANGED <<storeVars, queueVars, now, nextId, queueHist, txVars, trackerVars,
                trackerHist, crumbVars, appVars, sanVars, dedupVars, sessionVars,
                fingerprintVars>>

NextBackoff ==
    \/ \E status \in RetryableStatuses, retryAfter \in RetryAfterHeaders,
          rnd \in JitterRandoms :
         BRetryableResponse(status, retryAfter, rnd) /\ BackoffOnly
    \/ \E rnd \in JitterRandoms : BNetworkError(rnd) /\ BackoffOnly

SpecBackoff == InitBackoff /\ [][NextBackoff]_vars

(***************************************************************************)
(* C34: the backoff delays computed in one send call are non-decreasing    *)
(* in the attempt number, whatever the jitter of each, and none exceeds    *)
(* MAX_DELAY_MS.                                                           *)
(***************************************************************************)
C34_BackoffMonotoneAndCapped ==
    /\ \A i \in 1..Len(backoff.computed) : backoff.computed[i] <= MAX_DELAY_MS
    /\ \A i, j \in 1..Len(backoff.computed) :
         i <= j => backoff.computed[i] <= backoff.computed[j]

\* the largest jitter was followed by the smallest, and the cap was reached
C34_Witness ==
    /\ Len(backoff.computed) = MaxBackoffAttempts
    /\ backoff.computed[1] = CalculateBackoffDelay(0, 999)
    /\ backoff.computed[2] = CalculateBackoffDelay(1, 0)
    /\ backoff.computed[MaxBackoffAttempts] = MAX_DELAY_MS

(***************************************************************************)
(* C35: after a retryable response with a Retry-After header of R seconds  *)
(* (R a non-negative integer in decimal), the delay before the next        *)
(* attempt is min(R * 1000, MAX_DELAY_MS), whatever the attempt number and *)
(* the computed backoff delay.                                             *)
(***************************************************************************)
C35_RetryAfterReplacesBackoff ==
    \A r \in RetrySeconds :
       (/\ backoff.cur.source = "response"
        /\ backoff.cur.retryAfter = Header(Decimal(r)))
       => backoff.cur.delay = Min(r * 1000, MAX_DELAY_MS)

\* a header shorter than the computed delay, and one beyond the cap, on a
\* later attempt that is followed by a sleep
C35_Witness ==
    /\ backoff.cur.source = "response"
    /\ backoff.cur.attempt >= 2
    /\ backoff.cur.slept
    /\ backoff.cur.retryAfter \in {Header(Decimal(0)), Header(Decimal(31))}
    /\ backoff.cur.delay # backoff.cur.computed

(***************************************************************************)
(* C36: a flush (manual, debounce or periodic) that starts on a non-empty  *)
(* queue while another flush awaits its response is not held back: it      *)
(* sends the whole queue, the events of the pending batch that are still   *)
(* queued included, so one event can be delivered in two batches.          *)
(***************************************************************************)
Pending(fl) == {i \in 1..Len(fl) : fl[i].send.pc = "fetch"}

C36_OverlappingFlushesNotSerialized ==
    [][(/\ \/ isInitialized /\ Flush
           \/ PeriodicFire
           \/ \E j \in 1..Len(timeouts) : DebounceFire(j)
        /\ queue # <<>>
        /\ Pending(flights) # {})
       => /\ Len(flights') = Len(flights) + 1
          /\ flights'[Len(flights')].send.pc = "fetch"
          /\ flights'[Len(flights')].send.events = queue
          /\ \A i \in Pending(flights) :
               Ids(flights[i].send.events) \cap Ids(queue)
                 \subseteq Ids(flights'[Len(flights')].send.events)]_vars

\* a batch was acknowledged while another request carrying one of its events
\* is still pending
C36_Witness ==
    /\ last.op = "complete"
    /\ last.success
    /\ \E i \in Pending(flights) : Ids(flights[i].send.events) \cap last.ids # {}

(***************************************************************************)
(* C37: once shutdown() has resolved, and until the next init, no flush    *)
(* timer (interval or debounce timeout) is pending and no Transport.send   *)
(* is started, also when captureError was called while the final flush of  *)
(* shutdown was awaiting its response.                                     *)
(***************************************************************************)
\* the last call of init or shutdown was a shutdown, and it has resolved
AfterShutdown ==
    /\ lifecycle = "shutdown"
    /\ ~isInitialized
    /\ \A i \in 1..Len(flights) : flights[i].origin # "shutdown"

NoFlushTimer ==
    /\ ~flushIntervalId
    /\ ~leakedInterval
    /\ timeouts = <<>>

C37_QuietAfterShutdown ==
    [][/\ AfterShutdown' => NoFlushTimer'
       /\ (AfterShutdown /\ AfterShutdown') => Len(flights') <= Len(flights)]_vars

(***************************************************************************)
(* C38: a 2xx response ends the send with success and is the last request  *)
(* of the call, whatever its body (empty, not JSON, JSON null included).   *)
(***************************************************************************)
IsOkResponse(r) == r.kind = "http" /\ ResponseOk(r.status)

C38_OkResponseEndsSend ==
    \A i \in 1..Len(txLog) :
       IsOkResponse(txLog[i]) =>
         /\ i = Len(txLog)
         /\ tx.pc = "done"
         /\ tx.result.success

\* the same, for the 2xx responses whose body is JSON that `data.event_ids`
\* can be read from
C38_OkJsonResponseEndsSend ==
    \A i \in 1..Len(txLog) :
       (IsOkResponse(txLog[i]) /\ txLog[i].body.kind # "bad") =>
         /\ i = Len(txLog)
         /\ tx.pc = "done"
         /\ tx.result.success

(***************************************************************************)
(* SpecPeriodic: a tracker initialized once in periodic mode.  Errors are  *)
(* captured, the interval fires, and the collector answers every POST with *)
(* a 2xx status and some body.  FairPeriodic adds what the platform        *)
(* guarantees: the setInterval callback keeps being called, the oldest     *)
(* pending request is answered, and a backoff sleep ends.                  *)
(***************************************************************************)
PeriodicConfigs ==
    ConfigsWith({FALSE}, {MaxQueueSize}, {TRUE}, {RateOne}, {TRUE}, {"none"}, {TRUE})

OkResponses(f) == {r \in FlightResponses(f) : r.kind = "http" /\ ResponseOk(r.status)}

\* the oldest pending request is answered
OldestResponds ==
    /\ flights # <<>>
    /\ \E r \in OkResponses(flights[1]) : FlightRespond(1, r)

\* the sleep of the oldest flight ends
OldestWakes ==
    /\ flights # <<>>
    /\ FlightWake(1)

NextPeriodic ==
    \/ \E cfg \in PeriodicConfigs : CInit(cfg) /\ TrackerOnly /\ NoBurst
    \/ CaptureError(FALSE, 0, NoContext) /\ TrackerOnly /\ NoBurst
    \/ PeriodicFire /\ TrackerOnly /\ NoBurst
    \/ \E i \in 1..Len(flights) : \E r \in OkResponses(flights[i]) :
         FlightRespond(i, r) /\ TrackerOnly /\ NoBurst
    \/ \E i \in 1..Len(flights) : FlightWake(i) /\ TrackerOnly /\ NoBurst

SpecPeriodic == InitTracker /\ [][NextPeriodic]_vars

FairPeriodic ==
    /\ SpecPeriodic
    /\ WF_vars(PeriodicFire /\ TrackerOnly /\ NoBurst)
    /\ WF_vars(OldestResponds /\ TrackerOnly /\ NoBurst)
    /\ WF_vars(OldestWakes /\ TrackerOnly /\ NoBurst)

(***************************************************************************)
(* C39: in periodic mode, with the collector answering every POST with a   *)
(* 2xx response, every queued event eventually leaves the queue, without   *)
(* any further capture or manual flush.                                    *)
(***************************************************************************)
C39_QueuedEventuallyRemoved ==
    \A id \in 1..MaxCaptures : (id \in Ids(queue)) ~> (id \notin Ids(queue))

\* the same, when every send that ends has succeeded with a body that lists
\* every event of its batch or has no event_ids at all
FullyAcknowledged(l) ==
    /\ l.success
    /\ \/ l.ack = "noids"
       \/ l.ack = "ids" /\ {l.batch[k] : k \in 1..Len(l.batch)} \subseteq l.ids

C39_RemovedWhenFullyAcknowledged ==
    [](last.op = "complete" => FullyAcknowledged(last))
      => \A id \in 1..MaxCaptures : (id \in Ids(queue)) ~> (id \notin Ids(queue))

(***************************************************************************)
(* C40: prune() cannot be observed through shouldCapture: with time never  *)
(* going back, every shouldCapture call returns what the same call returns *)
(* from a manager that was given the same calls and was never pruned.      *)
(***************************************************************************)
C40_PruneUnobservable ==
    /\ dedupLast.n > 0 => dedupLast.ret = dedupLast.twin
    /\ \A fp \in Fingerprints :
         \/ seen[fp] = unpruned[fp]
         \/ /\ seen[fp] = Null
            /\ unpruned[fp] # Null
            /\ now - unpruned[fp].firstSeen > windowMs

\* a call found the entry of its fingerprint deleted by prune(), while the
\* entry of the other fingerprint is deleted in one manager and kept in the
\* other
C40_Witness ==
    /\ dedupLast.n >= 2
    /\ dedupLast.pruned
    /\ dedupLast.ret
    /\ \E fp \in Fingerprints : seen[fp] = Null /\ unpruned[fp] # Null

====
